---- MODULE Spec2Model ----
(***************************************************************************)
(* A model of the host side of the GuidedFilter OpenCL library             *)
(* (src/GuidedFilter/algorithms.cpp, src/GuidedFilter/math.cpp).           *)
(*                                                                         *)
(* The module holds eight state machines over one set of variables:        *)
(*   SpecStaging - init/write/read of one processing stage and the         *)
(*                 transfers they put on the stage's command queue;        *)
(*   SpecWiring  - memory objects and kernel arguments of a stage and of   *)
(*                 its inner stages across get-assignment, init, setters;  *)
(*   SpecSched   - the commands a run puts on the in-order queues, their   *)
(*                 wait lists and their execution;                         *)
(*   SpecHost    - run () called repeatedly, the device left out;          *)
(*   SpecConfig  - construction on a device and init with any dimensions;  *)
(*   SpecDevice  - Scan, Transpose, SAT, the box filters and the guided    *)
(*                 filters executed on arrays, next to the serial          *)
(*                 references of the tests;                                *)
(*   SpecFrame   - frames written and run without blocking on the two      *)
(*                 in-order queues;                                        *)
(*   SpecFetch   - run () followed by a blocking read of an output.        *)
(***************************************************************************)
EXTENDS Integers, Sequences, FiniteSets, TLC

(***************************************************************************)
(* Bounds                                                                  *)
(***************************************************************************)
\* Largest number of transfers pending on the stage's queue.
MaxQueue == 1

(***************************************************************************)
(* Staging policy and the stages of the library                            *)
(***************************************************************************)
Staging == {"NONE", "I", "O", "IO"}

MathKinds == {"Mult", "Pown"}

AlgoKinds ==
  {"SeparateRGB_FLOAT_FLOAT", "SeparateRGB_UCHAR_FLOAT",
   "CombineRGB_FLOAT_FLOAT", "CombineRGB_FLOAT_UCHAR",
   "Depth", "DepthTo3D", "RGBDTo8D", "SplitPC8D", "RGBNorm",
   "Scan", "Transpose", "SAT", "BoxFilterSAT", "BoxFilter",
   "GuidedFilter_I_EQ_P", "GuidedFilter_I_NEQ_P",
   "GuidedFilterRGB_SEPARATED", "GuidedFilterRGB_INTERLEAVED_FLOAT",
   "GuidedFilterDepth"}

StageKinds == AlgoKinds \cup MathKinds

\* The two instantiations of GuidedFilter.
GuidedFilters == {"GuidedFilter_I_EQ_P", "GuidedFilter_I_NEQ_P"}

\* The two instantiations of Kinect::GuidedFilterRGB.
RGBPipelines ==
  {"GuidedFilterRGB_SEPARATED", "GuidedFilterRGB_INTERLEAVED_FLOAT"}

\* The device buffers a stage's write () has a case for.
WriteMems(k) ==
  CASE k \in {"CombineRGB_FLOAT_FLOAT", "CombineRGB_FLOAT_UCHAR"}
         -> {"D_IN_R", "D_IN_G", "D_IN_B"}
    [] k = "RGBDTo8D" -> {"D_IN_D", "D_IN_R", "D_IN_G", "D_IN_B"}
    [] k = "GuidedFilter_I_NEQ_P" -> {"D_IN_I", "D_IN_P"}
    [] k = "Mult" -> {"D_IN_A", "D_IN_B"}
    [] OTHER -> {"D_IN"}

\* The host buffers a stage's read () has a case for.
ReadMems(k) ==
  CASE k \in {"SeparateRGB_FLOAT_FLOAT", "SeparateRGB_UCHAR_FLOAT",
                 "GuidedFilterRGB_SEPARATED"}
         -> {"H_OUT_R", "H_OUT_G", "H_OUT_B"}
    [] k = "SplitPC8D" -> {"H_OUT_PC4D", "H_OUT_RGBA"}
    [] OTHER -> {"H_OUT"}

\* The staging buffer write () copies from for a device input buffer, and
\* the device buffer read () copies from for a host output buffer.
HostOf(mem) ==
  CASE mem = "D_IN" -> "H_IN"
    [] mem = "D_IN_R" -> "H_IN_R"
    [] mem = "D_IN_G" -> "H_IN_G"
    [] mem = "D_IN_B" -> "H_IN_B"
    [] mem = "D_IN_D" -> "H_IN_D"
    [] mem = "D_IN_I" -> "H_IN_I"
    [] mem = "D_IN_P" -> "H_IN_P"
    [] mem = "D_IN_A" -> "H_IN_A"

DevOf(mem) ==
  CASE mem = "H_OUT" -> "D_OUT"
    [] mem = "H_OUT_R" -> "D_OUT_R"
    [] mem = "H_OUT_G" -> "D_OUT_G"
    [] mem = "H_OUT_B" -> "D_OUT_B"
    [] mem = "H_OUT_PC4D" -> "D_OUT_PC4D"
    [] mem = "H_OUT_RGBA" -> "D_OUT_RGBA"

\* Memory names of a stage that are neither read nor written by transfers.
OtherMems(k) ==
  CASE k = "Scan" -> {"D_SUMS"}
    [] k = "GuidedFilter_I_EQ_P" -> {"D_A", "D_B"}
    [] k = "GuidedFilter_I_NEQ_P" -> {"D_A", "D_B", "D_VAR_I", "D_COV_IP"}
    [] k \in {"GuidedFilterRGB_SEPARATED",
                 "GuidedFilterRGB_INTERLEAVED_FLOAT"}
         -> {"D_INTR_R", "D_INTR_G", "D_INTR_B"}
    [] OTHER -> {}

HostIn(k) == {HostOf(m) : m \in WriteMems(k)}
DevOut(k) == {DevOf(m) : m \in ReadMems(k)}

\* The enumerators of the stage's Memory enum: the names get () accepts.
Memory(k) ==
  HostIn(k) \cup ReadMems(k) \cup WriteMems(k) \cup DevOut(k)
    \cup OtherMems(k)

(***************************************************************************)
(* State                                                                    *)
(***************************************************************************)
VARIABLES
  kind,      \* the class of the stage
  phase,     \* "constructed" until init () returns, then "ready"
  staging,   \* the stage's staging member
  hPtr,      \* the mapped staging pointers hPtrIn*, hPtrOut*, by buffer name
  content,   \* what each staging and device buffer holds
  queue,     \* transfers enqueued on the stage's queue and not yet executed
  last,      \* the last call made on the stage and what it returned
  error,     \* the exception a call raised, or "none"
  world,     \* members and kernel arguments of the stage and its inner stages
  assigned,  \* memory objects the caller assigned through get () before init
  calls,     \* number of get-assignments and setter calls made so far
  cmds,      \* kernel executions enqueued by run (), in the order of the calls
  events,    \* the cl::Event members and wait lists: the command each names
  tokens,    \* per run () call, the event the caller got back
  started,   \* commands the device has started
  done       \* commands the device has completed

\* What only the transfer calls touch, what only construction, init and the
\* setters touch, and what only run () and the device touch.
stagingOnly == <<staging, hPtr, content, queue>>
wiringOnly == <<world, assigned, calls>>
schedOnly == <<cmds, events, tokens, started, done>>

\* Buffers whose content the transfers of a stage read or write.
Buffers(k) == HostIn(k) \cup WriteMems(k) \cup DevOut(k) \cup ReadMems(k)

\* Content of a buffer nobody has written yet; device output buffers hold
\* what the stage's kernels produced.
InitialContent(k) ==
  [b \in Buffers(k) |-> IF b \in DevOut(k) THEN "result" ELSE "uninitialised"]

\* A write gate that ignores the staging policy.
WriteAlwaysEnabled(k, st) == TRUE

\* math.cpp gates Mult and Pown transfers on Staging::IO alone; every stage
\* of algorithms.cpp gates write on I or IO and read on O or IO.
WriteEnabled(k, st) ==
  IF k \in MathKinds THEN st = "IO" ELSE st \in {"I", "IO"}

ReadEnabled(k, st) ==
  IF k \in MathKinds THEN st = "IO" ELSE st \in {"O", "IO"}

\* The staging switch of init (): which staging pointers are mapped.
MappedPtrs(k, st) ==
  [h \in HostIn(k) \cup ReadMems(k) |->
     IF \/ h \in HostIn(k) /\ st \in {"I", "IO"}
        \/ h \in ReadMems(k) /\ st \in {"O", "IO"}
     THEN h ELSE "nullptr"]

\* The effect of one transfer command on the buffers.
Transfer(cmd, c) ==
  IF cmd.op = "write" THEN [c EXCEPT ![cmd.dev] = c[cmd.host]]
  ELSE [c EXCEPT ![cmd.host] = c[cmd.dev]]

\* The in-order queue executes its pending commands first to last.
RECURSIVE Finish(_, _)
Finish(q, c) ==
  IF q = <<>> THEN c ELSE Finish(Tail(q), Transfer(Head(q), c))

\* enqueueWriteBuffer / enqueueReadBuffer: a null host pointer is rejected
\* with CL_INVALID_VALUE; a blocking call returns once the copy is done.
Enqueue(cmd, block, c) ==
  IF hPtr[cmd.host] = "nullptr"
  THEN /\ error' = "CL_INVALID_VALUE"
       /\ content' = c
       /\ queue' = queue
  ELSE /\ error' = error
       /\ IF block
          THEN /\ content' = Finish(Append(queue, cmd), c)
               /\ queue' = <<>>
          ELSE /\ content' = c
               /\ queue' = Append(queue, cmd)

\* A stage that holds no buffer and has set no kernel argument.
EmptyWorld == [m |-> <<>>, k |-> <<>>, err |-> "none"]

StagingInit ==
  /\ kind \in StageKinds
  /\ phase = "constructed"
  /\ staging = "unset"
  /\ hPtr = [h \in HostIn(kind) \cup ReadMems(kind) |-> "nullptr"]
  /\ content = InitialContent(kind)
  /\ queue = <<>>
  /\ last = [op |-> "construct", mem |-> "none", ret |-> "none"]
  /\ error = "none"
  /\ world = EmptyWorld /\ assigned = <<>> /\ calls = 0
  /\ cmds = <<>> /\ events = <<>> /\ tokens = <<>>
  /\ started = {} /\ done = {}

\* init (..., _staging): records the policy and maps the staging pointers.
init(_staging) ==
  /\ phase = "constructed"
  /\ phase' = "ready"
  /\ staging' = _staging
  /\ hPtr' = MappedPtrs(kind, _staging)
  /\ last' = [op |-> "init", mem |-> "none", ret |-> "none"]
  /\ UNCHANGED <<kind, content, queue, error>>
  /\ UNCHANGED <<wiringOnly, schedOnly>>

\* write (mem, ptr, block): ptr is <<>> for nullptr, <<"caller">> for an
\* array of the caller.
write(mem, ptr, block) ==
  /\ phase = "ready" /\ error = "none"
  /\ last' = [op |-> "write", mem |-> mem, ret |-> "none"]
  /\ IF WriteEnabled(kind, staging) /\ mem \in WriteMems(kind)
     THEN /\ block \/ Len(queue) < MaxQueue
          /\ Enqueue([op |-> "write", dev |-> mem, host |-> HostOf(mem)],
                     block,
                     IF ptr # <<>> /\ hPtr[HostOf(mem)] # "nullptr"
                     THEN [content EXCEPT ![HostOf(mem)] = ptr[1]]
                     ELSE content)
     ELSE UNCHANGED <<content, queue, error>>
  /\ UNCHANGED <<kind, phase, staging, hPtr>>
  /\ UNCHANGED <<wiringOnly, schedOnly>>

\* read (mem, block): returns the staging pointer or nullptr.
read(mem, block) ==
  /\ phase = "ready" /\ error = "none"
  /\ IF ReadEnabled(kind, staging) /\ mem \in ReadMems(kind)
     THEN /\ block \/ Len(queue) < MaxQueue
          /\ Enqueue([op |-> "read", dev |-> DevOf(mem), host |-> mem],
                     block, content)
          /\ last' = [op |-> "read", mem |-> mem, ret |-> hPtr[mem]]
     ELSE /\ UNCHANGED <<content, queue, error>>
          /\ last' = [op |-> "read", mem |-> mem, ret |-> "nullptr"]
  /\ UNCHANGED <<kind, phase, staging, hPtr>>
  /\ UNCHANGED <<wiringOnly, schedOnly>>

\* The device executes the transfer at the head of the queue.
ExecuteTransfer ==
  /\ queue # <<>>
  /\ content' = Transfer(Head(queue), content)
  /\ queue' = Tail(queue)
  /\ last' = [op |-> "execute", mem |-> "none", ret |-> "none"]
  /\ UNCHANGED <<kind, phase, staging, hPtr, error>>
  /\ UNCHANGED <<wiringOnly, schedOnly>>

StagingNext ==
  \/ \E st \in Staging : init(st)
  \/ \E mem \in Memory(kind), ptr \in {<<>>, <<"caller">>}, block \in BOOLEAN :
       write(mem, ptr, block)
  \/ \E mem \in Memory(kind), block \in BOOLEAN : read(mem, block)
  \/ ExecuteTransfer


(***************************************************************************)
(* Memory objects, members and kernel arguments                            *)
(*                                                                         *)
(* An object of the library is named by its path from the stage under      *)
(* test: <<>> is the stage itself, <<"mean_p", "sat", "scanRows">> the Scan *)
(* inside the SAT inside its mean_p box filter.  A world W records the     *)
(* members of all objects (W.m, by path of the member), the arguments last *)
(* bound to every kernel (W.k, by path of the kernel) and the error that   *)
(* made the process exit (W.err).                                          *)
(***************************************************************************)
\* Highest kernel argument index any setArg call of the library uses.
MaxArgIndex == 9

NullBuffer == [buf |-> <<>>]
NewBuffer(slot) == [buf |-> <<"cl::Buffer">> \o slot]
CallerBuffer(name) == [buf |-> <<"caller", name>>]
Unset == [unset |-> TRUE]
IntVal(i) == [int |-> i]
Float(num, den) == [n |-> num, d |-> den]
Local(bytes) == [local |-> bytes]
Flag(b) == [flag |-> b]
\* 1.f / x
Recip(x) == Float(x.d, x.n)

Load(W, slot) == IF slot \in DOMAIN W.m THEN W.m[slot] ELSE NullBuffer

Arg(W, kernel, i) ==
  IF kernel \in DOMAIN W.k THEN W.k[kernel][i + 1] ELSE Unset

\* exit (EXIT_FAILURE) was called: no later statement executes.
Exited(W) == W.err # "none"

(***************************************************************************)
(* A function body is modelled by the list of its statements, in source    *)
(* order; a call of another function of the library contributes that       *)
(* function's statements.  An operand that the source reads from a member  *)
(* when the statement executes is written Ref (member).                    *)
(***************************************************************************)
Ref(slot) == [ref |-> slot]
\* 1.f / member
RecipRef(slot) == [recip |-> slot]

Resolve(W, v) ==
  IF "ref" \in DOMAIN v THEN Load(W, v.ref)
  ELSE IF "recip" \in DOMAIN v THEN Recip(Load(W, v.recip))
  ELSE v

\* member = v
Store(slot, v) == <<[st |-> "store", slot |-> slot, v |-> v]>>

\* kernel.setArg (i, v)
setArg(kernel, i, v) ==
  <<[st |-> "setArg", kernel |-> kernel, i |-> i, v |-> v]>>

\* if (bad) { std::cerr << msg; exit (EXIT_FAILURE); }
Check(bad, msg) == IF bad THEN <<[st |-> "exit", msg |-> msg]>> ELSE <<>>

\* member = cl::Buffer (context, ...): a new memory object, whatever the
\* member held.
AssignNew(slot) == Store(slot, NewBuffer(slot))

\* dst = src, for two members
Move(dst, src) == Store(dst, Ref(src))

\* if (member () == nullptr) member = cl::Buffer (...), for each member.
RECURSIVE CreateIfNull(_, _)
CreateIfNull(p, members) ==
  IF members = <<>> THEN <<>>
  ELSE <<[st |-> "ifnull", slot |-> Append(p, Head(members))]>>
       \o CreateIfNull(p, Tail(members))

\* kernel.setArg (first, vals[1]); kernel.setArg (first + 1, vals[2]); ...
RECURSIVE setArgs(_, _, _)
setArgs(kernel, first, vals) ==
  IF vals = <<>> THEN <<>>
  ELSE setArg(kernel, first, Head(vals))
       \o setArgs(kernel, first + 1, Tail(vals))

\* The staging switch of every init: staging buffers are created, unless
\* already assigned, for the directions the policy covers.
StagingSwitch(p, ins, outs, _staging) ==
     Store(Append(p, "staging"), [staging |-> _staging])
  \o (IF _staging \in {"I", "IO"} THEN CreateIfNull(p, ins) ELSE <<>>)
  \o (IF _staging \in {"O", "IO"} THEN CreateIfNull(p, outs) ELSE <<>>)

\* The world after one statement.
Step(W, s) ==
  IF Exited(W) THEN W
  ELSE CASE s.st = "store" ->
              [W EXCEPT !.m = (s.slot :> Resolve(W, s.v)) @@ W.m]
         [] s.st = "ifnull" ->
              IF Load(W, s.slot) = NullBuffer
              THEN [W EXCEPT !.m = (s.slot :> NewBuffer(s.slot)) @@ W.m]
              ELSE W
         [] s.st = "setArg" ->
              [W EXCEPT !.k =
                 (s.kernel :> [j \in 1..(MaxArgIndex + 1) |->
                                 IF j = s.i + 1 THEN Resolve(W, s.v)
                                 ELSE Arg(W, s.kernel, j - 1)])
                 @@ W.k]
         [] s.st = "exit" -> [W EXCEPT !.err = s.msg]

\* The world after the statements of prog, executed in order.
RECURSIVE Run(_, _)
Run(W, prog) ==
  IF Exited(W) \/ prog = <<>> THEN W
  ELSE IF Len(prog) = 1 THEN Step(W, prog[1])
  ELSE Run(Run(W, SubSeq(prog, 1, Len(prog) \div 2)),
           SubSeq(prog, Len(prog) \div 2 + 1, Len(prog)))

\* The member a Memory enumerator names in the classes that keep it
\* themselves.
MemberOf(mem) ==
  CASE mem = "H_IN" -> "hBufferIn"       [] mem = "H_OUT" -> "hBufferOut"
    [] mem = "H_IN_R" -> "hBufferInR"    [] mem = "H_IN_G" -> "hBufferInG"
    [] mem = "H_IN_B" -> "hBufferInB"    [] mem = "H_IN_D" -> "hBufferInD"
    [] mem = "H_IN_I" -> "hBufferInI"    [] mem = "H_IN_P" -> "hBufferInP"
    [] mem = "H_IN_A" -> "hBufferInA"
    [] mem = "H_OUT_R" -> "hBufferOutR"  [] mem = "H_OUT_G" -> "hBufferOutG"
    [] mem = "H_OUT_B" -> "hBufferOutB"
    [] mem = "H_OUT_PC4D" -> "hBufferOutPC4D"
    [] mem = "H_OUT_RGBA" -> "hBufferOutRGBA"
    [] mem = "D_IN" -> "dBufferIn"       [] mem = "D_OUT" -> "dBufferOut"
    [] mem = "D_IN_R" -> "dBufferInR"    [] mem = "D_IN_G" -> "dBufferInG"
    [] mem = "D_IN_B" -> "dBufferInB"    [] mem = "D_IN_D" -> "dBufferInD"
    [] mem = "D_IN_I" -> "dBufferInI"    [] mem = "D_IN_P" -> "dBufferInP"
    [] mem = "D_IN_A" -> "dBufferInA"
    [] mem = "D_OUT_R" -> "dBufferOutR"  [] mem = "D_OUT_G" -> "dBufferOutG"
    [] mem = "D_OUT_B" -> "dBufferOutB"
    [] mem = "D_OUT_PC4D" -> "dBufferOutPC4D"
    [] mem = "D_OUT_RGBA" -> "dBufferOutRGBA"
    [] mem = "D_SUMS" -> "dBufferSums"
    [] mem = "D_A" -> "dBufferOutA"      [] mem = "D_B" -> "dBufferOutB"
    [] mem = "D_VAR_I" -> "dBufferOutVarI"
    [] mem = "D_COV_IP" -> "dBufferOutCovIp"

\* Properties of the device the kernels were built for.
WgMultiple == 2

\* wgM = wgMultiple; while (n % (3 * wgM) != 0) wgM >>= 1;
\* (reached only once n was found to be a multiple of 3)
RECURSIVE ReduceWgM(_, _)
ReduceWgM(n, wgM) ==
  IF n % (3 * wgM) # 0 THEN ReduceWgM(n, wgM \div 2) ELSE wgM

(***************************************************************************)
(* init of the stages that own a single kernel                             *)
(***************************************************************************)
SeparateRGB_init(p, bytes, _width, _height, _staging) ==
  LET height == _width * _height
      local == IF height % 3 = 0 THEN 3 * ReduceWgM(height, WgMultiple) ELSE 0
      kernel == Append(p, "kernel")
  IN    Check(height = 0, "The image cannot have zeroed dimensions")
     \o Check(height % 3 # 0,
              "The number of pixels in the image must be a multiple of 3")
     \o StagingSwitch(p, <<"hBufferIn">>,
                      <<"hBufferOutR", "hBufferOutG", "hBufferOutB">>,
                      _staging)
     \o CreateIfNull(p,
                     <<"dBufferIn", "dBufferOutR", "dBufferOutG",
                       "dBufferOutB">>)
     \o setArgs(kernel, 0,
                <<Ref(Append(p, "dBufferIn")), Ref(Append(p, "dBufferOutR")),
                  Ref(Append(p, "dBufferOutG")),
                  Ref(Append(p, "dBufferOutB")), Local(3 * local * bytes)>>)

CombineRGB_init(p, _width, _height, _staging) ==
  LET width == _width * _height
      local == IF width % 3 = 0 THEN 3 * ReduceWgM(width, WgMultiple) ELSE 0
      kernel == Append(p, "kernel")
  IN    Check(width = 0, "The image cannot have zeroed dimensions")
     \o Check(width % 3 # 0,
              "The number of pixels in the image must be a multiple of 3")
     \o StagingSwitch(p, <<"hBufferInR", "hBufferInG", "hBufferInB">>,
                      <<"hBufferOut">>, _staging)
     \o CreateIfNull(p,
                     <<"dBufferInR", "dBufferInG", "dBufferInB", "dBufferOut">>)
     \o setArgs(kernel, 0,
                <<Ref(Append(p, "dBufferInR")), Ref(Append(p, "dBufferInG")),
                  Ref(Append(p, "dBufferInB")), Ref(Append(p, "dBufferOut")),
                  Local(3 * local * 4)>>)

Depth_init(p, _width, _height, _scaling, _staging) ==
  LET length == _width * _height
      kernel == Append(p, "kernel")
  IN    Store(Append(p, "scaling"), _scaling)
     \o Check(length = 0, "The image cannot have zeroed dimensions")
     \o Check(length % 4 # 0,
              "The number of elements in the array has to be a multiple of 4")
     \o StagingSwitch(p, <<"hBufferIn">>, <<"hBufferOut">>, _staging)
     \o CreateIfNull(p, <<"dBufferIn", "dBufferOut">>)
     \o setArgs(kernel, 0,
                <<Ref(Append(p, "dBufferIn")), Ref(Append(p, "dBufferOut")),
                  Ref(Append(p, "scaling"))>>)

DepthTo3D_init(p, _width, _height, _f, _scaling, _staging) ==
  LET kernel == Append(p, "kernel")
  IN    Store(Append(p, "f"), _f)
     \o Store(Append(p, "scaling"), _scaling)
     \o Check(_width = 0 \/ _height = 0,
              "The image cannot have zeroed dimensions")
     \o StagingSwitch(p, <<"hBufferIn">>, <<"hBufferOut">>, _staging)
     \o CreateIfNull(p, <<"dBufferIn", "dBufferOut">>)
     \o setArgs(kernel, 0,
                <<Ref(Append(p, "dBufferIn")), Ref(Append(p, "dBufferOut")),
                  Ref(Append(p, "f")), Ref(Append(p, "scaling"))>>)

RGBDTo8D_init(p, _width, _height, _f, _scaling, _rgbNorm, _staging) ==
  LET points == _width * _height
      local == IF points % 3 = 0 THEN 3 * ReduceWgM(points, WgMultiple) ELSE 0
      kernel == Append(p, "kernel")
  IN    Store(Append(p, "f"), _f)
     \o Store(Append(p, "scaling"), _scaling)
     \o Store(Append(p, "rgbNorm"), _rgbNorm)
     \o Check(points = 0, "The image cannot have zeroed dimensions")
     \o Check(points % 3 # 0,
              "The number of pixels in the images must be a multiple of 3")
     \o StagingSwitch(p,
                      <<"hBufferInD", "hBufferInR", "hBufferInG",
                        "hBufferInB">>,
                      <<"hBufferOut">>, _staging)
     \o CreateIfNull(p,
                     <<"dBufferInD", "dBufferInR", "dBufferInG", "dBufferInB",
                       "dBufferOut">>)
     \o setArgs(kernel, 0,
                <<Ref(Append(p, "dBufferInD")), Ref(Append(p, "dBufferInR")),
                  Ref(Append(p, "dBufferInG")), Ref(Append(p, "dBufferInB")),
                  Ref(Append(p, "dBufferOut")), Local(3 * local * 4),
                  IntVal(_width), Ref(Append(p, "f")),
                  Ref(Append(p, "scaling")), Ref(Append(p, "rgbNorm"))>>)

SplitPC8D_init(p, _n, _offset, _staging) ==
  LET kernel == Append(p, "kernel")
  IN    Store(Append(p, "offset"), _offset)
     \o Check(_n = 0, "The point cloud cannot be empty")
     \o StagingSwitch(p, <<"hBufferIn">>,
                      <<"hBufferOutPC4D", "hBufferOutRGBA">>, _staging)
     \o CreateIfNull(p, <<"dBufferIn", "dBufferOutPC4D", "dBufferOutRGBA">>)
     \o setArgs(kernel, 0,
                <<Ref(Append(p, "dBufferIn")),
                  Ref(Append(p, "dBufferOutPC4D")),
                  Ref(Append(p, "dBufferOutRGBA")), Ref(Append(p, "offset"))>>)

RGBNorm_init(p, _width, _height, _staging) ==
  LET kernel == Append(p, "kernel")
  IN    Check(_width = 0 \/ _height = 0,
              "The image cannot have zeroed dimensions")
     \o StagingSwitch(p, <<"hBufferIn">>, <<"hBufferOut">>, _staging)
     \o CreateIfNull(p, <<"dBufferIn", "dBufferOut">>)
     \o setArgs(kernel, 0,
                <<Ref(Append(p, "dBufferIn")), Ref(Append(p, "dBufferOut"))>>)

Mult_init(p, _width, _height, _staging) ==
  LET length == _width * _height
      kernel == Append(p, "kernel")
  IN    Check(length = 0, "The image cannot have zeroed dimensions")
     \o Check(length % 4 # 0,
              "The number of elements in the array has to be a multiple of 4")
     \o StagingSwitch(p, <<"hBufferInA", "hBufferInB">>, <<"hBufferOut">>,
                      _staging)
     \o CreateIfNull(p, <<"dBufferInA", "dBufferInB", "dBufferOut">>)
     \o setArgs(kernel, 0,
                <<Ref(Append(p, "dBufferInA")), Ref(Append(p, "dBufferInB")),
                  Ref(Append(p, "dBufferOut"))>>)

Pown_init(p, _width, _height, _n, _staging) ==
  LET length == _width * _height
      kernel == Append(p, "kernel")
  IN    Store(Append(p, "n"), _n)
     \o Check(length = 0, "The image cannot have zeroed dimensions")
     \o Check(length % 4 # 0,
              "The number of elements in the array has to be a multiple of 4")
     \o StagingSwitch(p, <<"hBufferIn">>, <<"hBufferOut">>, _staging)
     \o CreateIfNull(p, <<"dBufferIn", "dBufferOut">>)
     \o setArgs(kernel, 0,
                <<Ref(Append(p, "dBufferIn")), Ref(Append(p, "dBufferOut")),
                  Ref(Append(p, "n"))>>)

(***************************************************************************)
(* Scan, Transpose, SAT and the box filters                                *)
(***************************************************************************)
\* Work-group side of the box filter kernels (lXdim, lYdim).
lXdim == 16
lYdim == 16

\* The number of work-groups per row, not rounded up to a multiple of 4.
WgXdim_exact(width) ==
  (width + 8 * WgMultiple - 1) \div (8 * WgMultiple)

\* The number of work-groups padded by 4 whatever it is.
WgXdim_padded(width) ==
  LET c == (width + 8 * WgMultiple - 1) \div (8 * WgMultiple)
  IN IF c # 1 THEN (c + 4) - (c % 4) ELSE c

\* wgXdim as Scan::init computes it from the number of columns.
WgXdim(width) ==
  LET c == (width + 8 * WgMultiple - 1) \div (8 * WgMultiple)
  IN IF c # 1 /\ c % 4 # 0 THEN (c + 4) - (c % 4) ELSE c

\* The arguments of kernelSumsScan and kernelAddSums, bound only when the
\* row spans more than one work-group.
Scan_initSums(p, _width, wgXdim) ==
  LET dBufferSums == Ref(Append(p, "dBufferSums"))
  IN IF wgXdim = 1 THEN <<>>
     ELSE    setArgs(Append(p, "kernelSumsScan"), 0,
                     <<dBufferSums, dBufferSums, Local(2 * WgMultiple * 4),
                       dBufferSums, IntVal(wgXdim \div 4), Float(1, 1)>>)
          \o setArgs(Append(p, "kernelAddSums"), 0,
                     <<dBufferSums, Ref(Append(p, "dBufferOut")),
                       IntVal(_width \div 4)>>)

\* An init of Scan that puts no upper limit on the row width.
Scan_init_unbounded(p, _width, _height, _scaling, _staging) ==
  LET wgXdim == WgXdim(_width)
      dBufferIn == Ref(Append(p, "dBufferIn"))
      dBufferSums == Ref(Append(p, "dBufferSums"))
      dBufferOut == Ref(Append(p, "dBufferOut"))
  IN    Store(Append(p, "scaling"), _scaling)
     \o Store(Append(p, "wgXdim"), IntVal(wgXdim))
     \o Check(wgXdim = 0, "The array cannot have zero columns")
     \o Check(_width % 4 # 0,
              "The number of columns in the array must be a multiple of 4")
     \o StagingSwitch(p, <<"hBufferIn">>, <<"hBufferOut">>, _staging)
     \o CreateIfNull(p, <<"dBufferIn", "dBufferSums", "dBufferOut">>)
     \o setArgs(Append(p, "kernelScan"), 0,
                <<dBufferIn, dBufferOut, Local(2 * WgMultiple * 4),
                  dBufferSums, IntVal(_width \div 4),
                  Ref(Append(p, "scaling"))>>)
     \o Scan_initSums(p, _width, wgXdim)

Scan_init(p, _width, _height, _scaling, _staging) ==
  LET wgXdim == WgXdim(_width)
      dBufferIn == Ref(Append(p, "dBufferIn"))
      dBufferSums == Ref(Append(p, "dBufferSums"))
      dBufferOut == Ref(Append(p, "dBufferOut"))
  IN    Store(Append(p, "scaling"), _scaling)
     \o Store(Append(p, "wgXdim"), IntVal(wgXdim))
     \o Check(wgXdim = 0, "The array cannot have zero columns")
     \o Check(_width % 4 # 0,
              "The number of columns in the array must be a multiple of 4")
     \o Check(_width > (8 * WgMultiple) * (8 * WgMultiple),
              "The current configuration of Scan supports arrays of up to (8 * wgMultiple)^2 columns")
     \o StagingSwitch(p, <<"hBufferIn">>, <<"hBufferOut">>, _staging)
     \o CreateIfNull(p, <<"dBufferIn", "dBufferSums", "dBufferOut">>)
     \o setArgs(Append(p, "kernelScan"), 0,
                <<dBufferIn, dBufferOut, Local(2 * WgMultiple * 4),
                  dBufferSums, IntVal(_width \div 4),
                  Ref(Append(p, "scaling"))>>)
     \o Scan_initSums(p, _width, wgXdim)

\* The widest tile, whatever the array.
LSide_widest(xN, yN, lSide) == lSide

\* A tile side chosen for the columns alone.
LSide_columns(xN, yN, lSide) ==
  CHOOSE l \in {1, 2, 4, 8, 16} :
    xN % l = 0 /\ \A m \in {1, 2, 4, 8, 16} : xN % m = 0 => m <= l

\* for (lSide = 16; lSide > 0; lSide >>= 1)
\*     if ((xN % lSide == 0) && (yN % lSide == 0)) break;
RECURSIVE LSide(_, _, _)
LSide(xN, yN, lSide) ==
  IF lSide > 0 /\ ~(xN % lSide = 0 /\ yN % lSide = 0)
  THEN LSide(xN, yN, lSide \div 2) ELSE lSide

Transpose_init(p, _width, _height, _staging) ==
  LET xN == _width \div 4
      yN == _height \div 4
      lSide == LSide(xN, yN, 16)
  IN    Check(_width % 4 # 0 \/ _height % 4 # 0 \/ xN = 0 \/ yN = 0,
              "The number of rows, and columns, in the array must be a multiple of 4 and a strictly positive number")
     \o StagingSwitch(p, <<"hBufferIn">>, <<"hBufferOut">>, _staging)
     \o CreateIfNull(p, <<"dBufferIn", "dBufferOut">>)
     \o setArgs(Append(p, "kernel"), 0,
                <<Ref(Append(p, "dBufferIn")), Ref(Append(p, "dBufferOut")),
                  Local(4 * 4 * lSide * lSide * 4)>>)

SAT_ctor(p, _transposed) ==
     Store(Append(p, "transposed"), Flag(_transposed))

SAT_get(W, p, mem) ==
  CASE mem = "D_IN" -> Append(Append(p, "scanRows"), "dBufferIn")
    [] mem = "D_OUT" ->
         IF Load(W, Append(p, "transposed")) = Flag(TRUE)
         THEN Append(Append(p, "scanColumns"), "dBufferOut")
         ELSE Append(Append(p, "transpose2"), "dBufferOut")
    [] OTHER -> Append(p, MemberOf(mem))

\* if (!transposed) { transpose2.get (D_IN) = scanColumns.get (D_OUT);
\*                     transpose2.init (height, width, Staging::NONE); }
SAT_initTranspose2(W, p, _width, _height) ==
  IF Load(W, Append(p, "transposed")) = Flag(TRUE) THEN <<>>
  ELSE    Move(Append(Append(p, "transpose2"), "dBufferIn"),
               Append(Append(p, "scanColumns"), "dBufferOut"))
       \o Transpose_init(Append(p, "transpose2"), _height, _width, "NONE")

SAT_init(W, p, _width, _height, _scaling, _staging) ==
  LET scanRows == Append(p, "scanRows")
      transpose1 == Append(p, "transpose1")
      scanColumns == Append(p, "scanColumns")
      scaling == Ref(Append(p, "scaling"))
  IN    Store(Append(p, "scaling"), _scaling)
     \o Check(_width = 0 \/ _height = 0,
              "The image cannot have zeroed dimensions")
     \o StagingSwitch(p, <<"hBufferIn">>, <<"hBufferOut">>, _staging)
     \o Scan_init(scanRows, _width, _height, scaling, "NONE")
     \o Move(Append(transpose1, "dBufferIn"), Append(scanRows, "dBufferOut"))
     \o AssignNew(Append(transpose1, "dBufferOut"))
     \o Transpose_init(transpose1, _width, _height, "NONE")
     \o Move(Append(scanColumns, "dBufferIn"),
             Append(transpose1, "dBufferOut"))
     \o Scan_init(scanColumns, _height, _width, Float(1, 1), "NONE")
     \o SAT_initTranspose2(W, p, _width, _height)

BoxFilterSAT_ctor(p) ==
     SAT_ctor(Append(p, "sat"), TRUE)

\* A get that hands out a member of the box filter itself for D_IN, not the
\* input of its SAT.
BoxFilterSAT_get_own(W, p, mem) == Append(p, MemberOf(mem))

BoxFilterSAT_get(W, p, mem) ==
  IF mem = "D_IN" THEN SAT_get(W, Append(p, "sat"), "D_IN")
  ELSE Append(p, MemberOf(mem))

BoxFilterSAT_init(W, p, _width, _height, _radius, _scaling, _staging) ==
  LET sat == Append(p, "sat")
      scaling == Ref(Append(p, "scaling"))
  IN    Store(Append(p, "radius"), _radius)
     \o Store(Append(p, "scaling"), _scaling)
     \o Check(_width = 0 \/ _height = 0,
              "The image cannot have zeroed dimensions")
     \o Check(_height % lXdim # 0,
              "The image width has to be a multiple of lXdim")
     \o Check(_width % lYdim # 0,
              "The image height has to be a multiple of lYdim")
     \o StagingSwitch(p, <<"hBufferIn">>, <<"hBufferOut">>, _staging)
     \o SAT_init(W, sat, _width, _height, scaling, "NONE")
     \o CreateIfNull(p, <<"dBufferOut">>)
     \o setArgs(Append(p, "kernel"), 0,
                <<Ref(SAT_get(W, sat, "D_OUT")), Ref(Append(p, "dBufferOut")),
                  Local(lXdim * lYdim * 4), Ref(Append(p, "radius")),
                  RecipRef(Append(p, "scaling"))>>)

BoxFilter_init(p, _width, _height, _radius, _staging) ==
     Store(Append(p, "radius"), _radius)
  \o Check(_width = 0 \/ _height = 0,
           "The image cannot have zeroed dimensions")
  \o Check(_height % lXdim # 0,
           "The image width has to be a multiple of lXdim")
  \o Check(_width % lYdim # 0,
           "The image height has to be a multiple of lYdim")
  \o StagingSwitch(p, <<"hBufferIn">>, <<"hBufferOut">>, _staging)
  \o CreateIfNull(p, <<"dBufferIn", "dBufferOut">>)
  \o setArgs(Append(p, "kernel"), 0,
             <<Ref(Append(p, "dBufferIn")), Ref(Append(p, "dBufferOut")),
               Local((lXdim + 2 * _radius.int) * (lYdim + 2 * _radius.int) * 4),
               Ref(Append(p, "radius"))>>)

(***************************************************************************)
(* Setters of the single stages                                            *)
(***************************************************************************)
Depth_setScaling(p, _scaling) ==
     Store(Append(p, "scaling"), _scaling)
  \o setArg(Append(p, "kernel"), 3, Ref(Append(p, "scaling")))

DepthTo3D_setFocalLength(p, _f) ==
     Store(Append(p, "f"), _f)
  \o setArg(Append(p, "kernel"), 2, Ref(Append(p, "f")))

DepthTo3D_setScaling(p, _scaling) ==
     Store(Append(p, "scaling"), _scaling)
  \o setArg(Append(p, "kernel"), 4, Ref(Append(p, "scaling")))

RGBDTo8D_setFocalLength(p, _f) ==
     Store(Append(p, "f"), _f)
  \o setArg(Append(p, "kernel"), 7, Ref(Append(p, "f")))

RGBDTo8D_setScaling(p, _scaling) ==
     Store(Append(p, "scaling"), _scaling)
  \o setArg(Append(p, "kernel"), 8, Ref(Append(p, "scaling")))

RGBDTo8D_setRGBNorm(p, _rgbNorm) ==
     Store(Append(p, "rgbNorm"), _rgbNorm)
  \o setArg(Append(p, "kernel"), 9, Ref(Append(p, "rgbNorm")))

SplitPC8D_setOffset(p, _offset) ==
     Store(Append(p, "offset"), _offset)
  \o setArg(Append(p, "kernel"), 3, Ref(Append(p, "offset")))

Pown_setPower(p, _n) ==
     Store(Append(p, "n"), _n)
  \o setArg(Append(p, "kernel"), 3, Ref(Append(p, "n")))

Scan_setScaling(p, _scaling) ==
     Store(Append(p, "scaling"), _scaling)
  \o setArg(Append(p, "kernelScan"), 5, Ref(Append(p, "scaling")))

SAT_setScaling(p, _scaling) ==
     Store(Append(p, "scaling"), _scaling)
  \o Scan_setScaling(Append(p, "scanRows"), Ref(Append(p, "scaling")))

BoxFilterSAT_setRadius(p, _radius) ==
     Store(Append(p, "radius"), _radius)
  \o setArg(Append(p, "kernel"), 3, Ref(Append(p, "radius")))

\* A setScaling that leaves the de-scale argument of the box kernel alone.
BoxFilterSAT_setScaling_sat(p, _scaling) ==
     Store(Append(p, "scaling"), _scaling)
  \o SAT_setScaling(Append(p, "sat"), Ref(Append(p, "scaling")))

BoxFilterSAT_setScaling(p, _scaling) ==
     Store(Append(p, "scaling"), _scaling)
  \o SAT_setScaling(Append(p, "sat"), Ref(Append(p, "scaling")))
  \o setArg(Append(p, "kernel"), 4, RecipRef(Append(p, "scaling")))

BoxFilter_setRadius(p, _radius) ==
     Store(Append(p, "radius"), _radius)
  \o setArg(Append(p, "kernel"), 3, Ref(Append(p, "radius")))

(***************************************************************************)
(* GuidedFilter<I_EQ_P>                                                    *)
(***************************************************************************)
GuidedFilter_I_EQ_P_ctor(p) ==
     BoxFilterSAT_ctor(Append(p, "mean_p"))
  \o BoxFilterSAT_ctor(Append(p, "mean_p2"))
  \o BoxFilterSAT_ctor(Append(p, "mean_a"))
  \o BoxFilterSAT_ctor(Append(p, "mean_b"))

GuidedFilter_I_EQ_P_init(W, p, _width, _height, _radius, _eps, _zero_out, _boxScaling, _outputScaling, _staging) ==
  LET mean_p == Append(p, "mean_p")
      mean_p2 == Append(p, "mean_p2")
      mean_a == Append(p, "mean_a")
      mean_b == Append(p, "mean_b")
      squared == Append(p, "squared")
      radius == Ref(Append(p, "radius"))
      boxScaling == Ref(Append(p, "boxScaling"))
  IN    Store(Append(p, "radius"), _radius)
     \o Store(Append(p, "eps"), _eps)
     \o Store(Append(p, "zero_out"), _zero_out)
     \o Store(Append(p, "boxScaling"), _boxScaling)
     \o Store(Append(p, "outputScaling"), _outputScaling)
     \o Check(_width = 0 \/ _height = 0,
              "The image cannot have zeroed dimensions")
     \o Check((_width * _height) % 4 # 0,
              "The number of elements in the array has to be a multiple of 4")
     \o StagingSwitch(p, <<"hBufferIn">>, <<"hBufferOut">>, _staging)
     \o CreateIfNull(p, <<"dBufferIn", "dBufferOut">>)
     \o Move(BoxFilterSAT_get(W, mean_p, "D_IN"), Append(p, "dBufferIn"))
     \o AssignNew(BoxFilterSAT_get(W, mean_p, "D_OUT"))
     \o BoxFilterSAT_init(W, mean_p, _width, _height, radius, boxScaling,
                          "NONE")
     \o Move(Append(squared, "dBufferIn"), Append(p, "dBufferIn"))
     \o AssignNew(Append(squared, "dBufferOut"))
     \o Pown_init(squared, _width, _height, IntVal(2), "NONE")
     \o Move(BoxFilterSAT_get(W, mean_p2, "D_IN"),
             Append(squared, "dBufferOut"))
     \o AssignNew(BoxFilterSAT_get(W, mean_p2, "D_OUT"))
     \o BoxFilterSAT_init(W, mean_p2, _width, _height, radius, boxScaling,
                          "NONE")
     \o AssignNew(Append(p, "dBufferOutA"))
     \o AssignNew(Append(p, "dBufferOutB"))
     \o setArgs(Append(p, "ab"), 0,
                <<Ref(BoxFilterSAT_get(W, mean_p, "D_OUT")),
                  Ref(BoxFilterSAT_get(W, mean_p2, "D_OUT")),
                  Ref(Append(p, "dBufferOutA")),
                  Ref(Append(p, "dBufferOutB")), Ref(Append(p, "eps"))>>)
     \o Move(BoxFilterSAT_get(W, mean_a, "D_IN"), Append(p, "dBufferOutA"))
     \o AssignNew(BoxFilterSAT_get(W, mean_a, "D_OUT"))
     \o BoxFilterSAT_init(W, mean_a, _width, _height, radius, boxScaling,
                          "NONE")
     \o Move(BoxFilterSAT_get(W, mean_b, "D_IN"), Append(p, "dBufferOutB"))
     \o AssignNew(BoxFilterSAT_get(W, mean_b, "D_OUT"))
     \o BoxFilterSAT_init(W, mean_b, _width, _height, radius, boxScaling,
                          "NONE")
     \o setArgs(Append(p, "q"), 0,
                <<Ref(Append(p, "dBufferIn")),
                  Ref(BoxFilterSAT_get(W, mean_a, "D_OUT")),
                  Ref(BoxFilterSAT_get(W, mean_b, "D_OUT")),
                  Ref(Append(p, "dBufferOut")), Ref(Append(p, "zero_out")),
                  Ref(Append(p, "outputScaling"))>>)

GuidedFilter_I_EQ_P_setRadius(p, _radius) ==
     Store(Append(p, "radius"), _radius)
  \o BoxFilterSAT_setRadius(Append(p, "mean_p"), Ref(Append(p, "radius")))
  \o BoxFilterSAT_setRadius(Append(p, "mean_p2"), Ref(Append(p, "radius")))
  \o BoxFilterSAT_setRadius(Append(p, "mean_a"), Ref(Append(p, "radius")))
  \o BoxFilterSAT_setRadius(Append(p, "mean_b"), Ref(Append(p, "radius")))

\* A setEps that also releases the buffer of the a coefficients.
GuidedFilter_I_EQ_P_setEps_releasing(p, _eps) ==
     Store(Append(p, "eps"), _eps)
  \o Store(Append(p, "dBufferOutA"), NullBuffer)
  \o setArg(Append(p, "ab"), 4, Ref(Append(p, "eps")))

GuidedFilter_I_EQ_P_setEps(p, _eps) ==
     Store(Append(p, "eps"), _eps)
  \o setArg(Append(p, "ab"), 4, Ref(Append(p, "eps")))

GuidedFilter_I_EQ_P_setBoxScaling(p, _boxScaling) ==
     Store(Append(p, "boxScaling"), _boxScaling)
  \o BoxFilterSAT_setScaling(Append(p, "mean_p"),
                             Ref(Append(p, "boxScaling")))
  \o BoxFilterSAT_setScaling(Append(p, "mean_p2"),
                             Ref(Append(p, "boxScaling")))
  \o BoxFilterSAT_setScaling(Append(p, "mean_a"),
                             Ref(Append(p, "boxScaling")))
  \o BoxFilterSAT_setScaling(Append(p, "mean_b"),
                             Ref(Append(p, "boxScaling")))

\* The source forwards outputScaling to the box filters' setScaling and
\* never rebinds argument 5 of q.
GuidedFilter_I_EQ_P_setOutputScaling(p, _outputScaling) ==
     Store(Append(p, "outputScaling"), _outputScaling)
  \o BoxFilterSAT_setScaling(Append(p, "mean_p"),
                             Ref(Append(p, "outputScaling")))
  \o BoxFilterSAT_setScaling(Append(p, "mean_p2"),
                             Ref(Append(p, "outputScaling")))
  \o BoxFilterSAT_setScaling(Append(p, "mean_a"),
                             Ref(Append(p, "outputScaling")))
  \o BoxFilterSAT_setScaling(Append(p, "mean_b"),
                             Ref(Append(p, "outputScaling")))

GuidedFilter_I_EQ_P_setZeroing(p, _zero_out) ==
     Store(Append(p, "zero_out"), _zero_out)
  \o setArg(Append(p, "q"), 4, Ref(Append(p, "zero_out")))

(***************************************************************************)
(* GuidedFilter<I_NEQ_P>                                                   *)
(***************************************************************************)
GuidedFilter_I_NEQ_P_ctor(p) ==
     BoxFilterSAT_ctor(Append(p, "mean_I"))
  \o BoxFilterSAT_ctor(Append(p, "mean_p"))
  \o BoxFilterSAT_ctor(Append(p, "corr_I"))
  \o BoxFilterSAT_ctor(Append(p, "corr_Ip"))
  \o BoxFilterSAT_ctor(Append(p, "mean_a"))
  \o BoxFilterSAT_ctor(Append(p, "mean_b"))

\* box.get (D_IN) = in; box.get (D_OUT) = cl::Buffer (...); box.init (...)
WireBox(W, box, in, _width, _height, _radius, _boxScaling) ==
     Move(BoxFilterSAT_get(W, box, "D_IN"), in)
  \o AssignNew(BoxFilterSAT_get(W, box, "D_OUT"))
  \o BoxFilterSAT_init(W, box, _width, _height, _radius, _boxScaling, "NONE")

\* mult.get (D_IN_A) = a; mult.get (D_IN_B) = b;
\* mult.get (D_OUT) = cl::Buffer (...); mult.init (...)
WireMult(mult, a, b, _width, _height) ==
     Move(Append(mult, "dBufferInA"), a)
  \o Move(Append(mult, "dBufferInB"), b)
  \o AssignNew(Append(mult, "dBufferOut"))
  \o Mult_init(mult, _width, _height, "NONE")

\* A blend kernel bound to the input image p in place of the guidance image.
GuidedFilter_I_NEQ_P_initQ_p(W, p) ==
  setArgs(Append(p, "q"), 0,
          <<Ref(Append(p, "dBufferInP")),
            Ref(BoxFilterSAT_get(W, Append(p, "mean_a"), "D_OUT")),
            Ref(BoxFilterSAT_get(W, Append(p, "mean_b"), "D_OUT")),
            Ref(Append(p, "dBufferOut")), Ref(Append(p, "zero_out")),
            Float(1, 1)>>)

\* A blend kernel that doubles its output.
GuidedFilter_I_NEQ_P_initQ_doubling(W, p) ==
  setArgs(Append(p, "q"), 0,
          <<Ref(Append(p, "dBufferInI")),
            Ref(BoxFilterSAT_get(W, Append(p, "mean_a"), "D_OUT")),
            Ref(BoxFilterSAT_get(W, Append(p, "mean_b"), "D_OUT")),
            Ref(Append(p, "dBufferOut")), Ref(Append(p, "zero_out")),
            Float(2, 1)>>)

\* The arguments init binds to the blend kernel q.
GuidedFilter_I_NEQ_P_initQ(W, p) ==
  setArgs(Append(p, "q"), 0,
          <<Ref(Append(p, "dBufferInI")),
            Ref(BoxFilterSAT_get(W, Append(p, "mean_a"), "D_OUT")),
            Ref(BoxFilterSAT_get(W, Append(p, "mean_b"), "D_OUT")),
            Ref(Append(p, "dBufferOut")), Ref(Append(p, "zero_out")),
            Float(1, 1)>>)

GuidedFilter_I_NEQ_P_init(W, p, _width, _height, _radius, _eps, _zero_out, _boxScaling, _staging) ==
  LET mean_I == Append(p, "mean_I")
      mean_p == Append(p, "mean_p")
      corr_I == Append(p, "corr_I")
      corr_Ip == Append(p, "corr_Ip")
      mean_a == Append(p, "mean_a")
      mean_b == Append(p, "mean_b")
      mult_II == Append(p, "mult_II")
      mult_Ip == Append(p, "mult_Ip")
      radius == Ref(Append(p, "radius"))
      boxScaling == Ref(Append(p, "boxScaling"))
      dBufferInI == Append(p, "dBufferInI")
      dBufferInP == Append(p, "dBufferInP")
  IN    Store(Append(p, "radius"), _radius)
     \o Store(Append(p, "eps"), _eps)
     \o Store(Append(p, "zero_out"), _zero_out)
     \o Store(Append(p, "boxScaling"), _boxScaling)
     \o Check(_width = 0 \/ _height = 0,
              "The image cannot have zeroed dimensions")
     \o Check((_width * _height) % 4 # 0,
              "The number of elements in the array has to be a multiple of 4")
     \o StagingSwitch(p, <<"hBufferInI", "hBufferInP">>, <<"hBufferOut">>,
                      _staging)
     \o CreateIfNull(p, <<"dBufferInI", "dBufferInP", "dBufferOut">>)
     \o WireBox(W, mean_I, dBufferInI, _width, _height, radius, boxScaling)
     \o WireBox(W, mean_p, dBufferInP, _width, _height, radius, boxScaling)
     \o WireMult(mult_II, dBufferInI, dBufferInI, _width, _height)
     \o WireMult(mult_Ip, dBufferInI, dBufferInP, _width, _height)
     \o WireBox(W, corr_I, Append(mult_II, "dBufferOut"), _width, _height,
                radius, boxScaling)
     \o WireBox(W, corr_Ip, Append(mult_Ip, "dBufferOut"), _width, _height,
                radius, boxScaling)
     \o AssignNew(Append(p, "dBufferOutVarI"))
     \o AssignNew(Append(p, "dBufferOutCovIp"))
     \o setArgs(Append(p, "var"), 0,
                <<Ref(BoxFilterSAT_get(W, corr_I, "D_OUT")),
                  Ref(BoxFilterSAT_get(W, corr_Ip, "D_OUT")),
                  Ref(BoxFilterSAT_get(W, mean_I, "D_OUT")),
                  Ref(BoxFilterSAT_get(W, mean_p, "D_OUT")),
                  Ref(Append(p, "dBufferOutVarI")),
                  Ref(Append(p, "dBufferOutCovIp"))>>)
     \o AssignNew(Append(p, "dBufferOutA"))
     \o AssignNew(Append(p, "dBufferOutB"))
     \o setArgs(Append(p, "ab"), 0,
                <<Ref(Append(p, "dBufferOutVarI")),
                  Ref(Append(p, "dBufferOutCovIp")),
                  Ref(BoxFilterSAT_get(W, mean_I, "D_OUT")),
                  Ref(BoxFilterSAT_get(W, mean_p, "D_OUT")),
                  Ref(Append(p, "dBufferOutA")),
                  Ref(Append(p, "dBufferOutB")), Ref(Append(p, "eps"))>>)
     \o WireBox(W, mean_a, Append(p, "dBufferOutA"), _width, _height, radius,
                boxScaling)
     \o WireBox(W, mean_b, Append(p, "dBufferOutB"), _width, _height, radius,
                boxScaling)
     \o GuidedFilter_I_NEQ_P_initQ(W, p)

\* A setRadius that forgets the box filter corr_Ip.
GuidedFilter_I_NEQ_P_setRadius_partial(p, _radius) ==
     Store(Append(p, "radius"), _radius)
  \o BoxFilterSAT_setRadius(Append(p, "mean_I"), Ref(Append(p, "radius")))
  \o BoxFilterSAT_setRadius(Append(p, "mean_p"), Ref(Append(p, "radius")))
  \o BoxFilterSAT_setRadius(Append(p, "corr_I"), Ref(Append(p, "radius")))
  \o BoxFilterSAT_setRadius(Append(p, "mean_a"), Ref(Append(p, "radius")))
  \o BoxFilterSAT_setRadius(Append(p, "mean_b"), Ref(Append(p, "radius")))

GuidedFilter_I_NEQ_P_setRadius(p, _radius) ==
     Store(Append(p, "radius"), _radius)
  \o BoxFilterSAT_setRadius(Append(p, "mean_I"), Ref(Append(p, "radius")))
  \o BoxFilterSAT_setRadius(Append(p, "mean_p"), Ref(Append(p, "radius")))
  \o BoxFilterSAT_setRadius(Append(p, "corr_I"), Ref(Append(p, "radius")))
  \o BoxFilterSAT_setRadius(Append(p, "corr_Ip"), Ref(Append(p, "radius")))
  \o BoxFilterSAT_setRadius(Append(p, "mean_a"), Ref(Append(p, "radius")))
  \o BoxFilterSAT_setRadius(Append(p, "mean_b"), Ref(Append(p, "radius")))

GuidedFilter_I_NEQ_P_setEps(p, _eps) ==
     Store(Append(p, "eps"), _eps)
  \o setArg(Append(p, "ab"), 6, Ref(Append(p, "eps")))

GuidedFilter_I_NEQ_P_setBoxScaling(p, _boxScaling) ==
     Store(Append(p, "boxScaling"), _boxScaling)
  \o BoxFilterSAT_setScaling(Append(p, "mean_I"),
                             Ref(Append(p, "boxScaling")))
  \o BoxFilterSAT_setScaling(Append(p, "mean_p"),
                             Ref(Append(p, "boxScaling")))
  \o BoxFilterSAT_setScaling(Append(p, "corr_I"),
                             Ref(Append(p, "boxScaling")))
  \o BoxFilterSAT_setScaling(Append(p, "corr_Ip"),
                             Ref(Append(p, "boxScaling")))
  \o BoxFilterSAT_setScaling(Append(p, "mean_a"),
                             Ref(Append(p, "boxScaling")))
  \o BoxFilterSAT_setScaling(Append(p, "mean_b"),
                             Ref(Append(p, "boxScaling")))

GuidedFilter_I_NEQ_P_setZeroing(p, _zero_out) ==
     Store(Append(p, "zero_out"), _zero_out)
  \o setArg(Append(p, "q"), 4, Ref(Append(p, "zero_out")))

(***************************************************************************)
(* Kinect::GuidedFilterRGB and Kinect::GuidedFilterDepth                   *)
(***************************************************************************)
GuidedFilterRGB_ctor(p) ==
     GuidedFilter_I_EQ_P_ctor(Append(p, "gfR"))
  \o GuidedFilter_I_EQ_P_ctor(Append(p, "gfG"))
  \o GuidedFilter_I_EQ_P_ctor(Append(p, "gfB"))

GuidedFilterRGB_get(p, mem) ==
  CASE mem = "D_INTR_R" -> Append(Append(p, "sRGB"), "dBufferOutR")
    [] mem = "D_INTR_G" -> Append(Append(p, "sRGB"), "dBufferOutG")
    [] mem = "D_INTR_B" -> Append(Append(p, "sRGB"), "dBufferOutB")
    [] OTHER -> Append(p, MemberOf(mem))

\* sRGB.get (D_IN) = dBufferIn; sRGB.get (D_OUT_R/G/B) = cl::Buffer (...);
\* sRGB.init (width, height, Staging::NONE)
WireSeparateRGB(p, _width, _height) ==
  LET sRGB == Append(p, "sRGB")
  IN    Move(Append(sRGB, "dBufferIn"), Append(p, "dBufferIn"))
     \o AssignNew(Append(sRGB, "dBufferOutR"))
     \o AssignNew(Append(sRGB, "dBufferOutG"))
     \o AssignNew(Append(sRGB, "dBufferOutB"))
     \o SeparateRGB_init(sRGB, 1, _width, _height, "NONE")

\* A channel filter given a memory object of its own as input.
WireChannel_copying(W, gf, in, out, _width, _height, _radius, _eps) ==
     AssignNew(Append(gf, "dBufferIn"))
  \o Store(Append(gf, "dBufferOut"), out)
  \o GuidedFilter_I_EQ_P_init(W, gf, _width, _height, _radius, _eps,
                              IntVal(0), Float(1, 10000), Float(1, 1), "NONE")

\* gf.get (D_IN) = in; gf.get (D_OUT) = out, where out is a member (Ref) or
\* a new memory object;
\* gf.init (width, height, radius, eps, 0, 1e-4f, 1.f, Staging::NONE)
WireChannel(W, gf, in, out, _width, _height, _radius, _eps) ==
     Move(Append(gf, "dBufferIn"), in)
  \o Store(Append(gf, "dBufferOut"), out)
  \o GuidedFilter_I_EQ_P_init(W, gf, _width, _height, _radius, _eps,
                              IntVal(0), Float(1, 10000), Float(1, 1), "NONE")

GuidedFilterRGB_SEPARATED_init(W, p, _width, _height, _radius, _eps, _staging) ==
  LET sRGB == Append(p, "sRGB")
      radius == Ref(Append(p, "radius"))
      eps == Ref(Append(p, "eps"))
  IN    Store(Append(p, "radius"), _radius)
     \o Store(Append(p, "eps"), _eps)
     \o StagingSwitch(p, <<"hBufferIn">>,
                      <<"hBufferOutR", "hBufferOutG", "hBufferOutB">>,
                      _staging)
     \o CreateIfNull(p,
                     <<"dBufferIn", "dBufferOutR", "dBufferOutG",
                       "dBufferOutB">>)
     \o WireSeparateRGB(p, _width, _height)
     \o WireChannel(W, Append(p, "gfR"), Append(sRGB, "dBufferOutR"),
                    Ref(Append(p, "dBufferOutR")), _width, _height, radius,
                    eps)
     \o WireChannel(W, Append(p, "gfG"), Append(sRGB, "dBufferOutG"),
                    Ref(Append(p, "dBufferOutG")), _width, _height, radius,
                    eps)
     \o WireChannel(W, Append(p, "gfB"), Append(sRGB, "dBufferOutB"),
                    Ref(Append(p, "dBufferOutB")), _width, _height, radius,
                    eps)

GuidedFilterRGB_INTERLEAVED_FLOAT_init(W, p, _width, _height, _radius, _eps, _staging) ==
  LET sRGB == Append(p, "sRGB")
      cRGB == Append(p, "cRGB")
      gfR == Append(p, "gfR")
      gfG == Append(p, "gfG")
      gfB == Append(p, "gfB")
      radius == Ref(Append(p, "radius"))
      eps == Ref(Append(p, "eps"))
  IN    Store(Append(p, "radius"), _radius)
     \o Store(Append(p, "eps"), _eps)
     \o StagingSwitch(p, <<"hBufferIn">>, <<"hBufferOut">>, _staging)
     \o CreateIfNull(p, <<"dBufferIn", "dBufferOut">>)
     \o WireSeparateRGB(p, _width, _height)
     \o WireChannel(W, gfR, Append(sRGB, "dBufferOutR"),
                    NewBuffer(Append(gfR, "dBufferOut")), _width, _height,
                    radius, eps)
     \o WireChannel(W, gfG, Append(sRGB, "dBufferOutG"),
                    NewBuffer(Append(gfG, "dBufferOut")), _width, _height,
                    radius, eps)
     \o WireChannel(W, gfB, Append(sRGB, "dBufferOutB"),
                    NewBuffer(Append(gfB, "dBufferOut")), _width, _height,
                    radius, eps)
     \o Move(Append(cRGB, "dBufferInR"), Append(gfR, "dBufferOut"))
     \o Move(Append(cRGB, "dBufferInG"), Append(gfG, "dBufferOut"))
     \o Move(Append(cRGB, "dBufferInB"), Append(gfB, "dBufferOut"))
     \o Move(Append(cRGB, "dBufferOut"), Append(p, "dBufferOut"))
     \o CombineRGB_init(cRGB, _width, _height, "NONE")

GuidedFilterRGB_setRadius(p, _radius) ==
     Store(Append(p, "radius"), _radius)
  \o GuidedFilter_I_EQ_P_setRadius(Append(p, "gfR"), Ref(Append(p, "radius")))
  \o GuidedFilter_I_EQ_P_setRadius(Append(p, "gfG"), Ref(Append(p, "radius")))
  \o GuidedFilter_I_EQ_P_setRadius(Append(p, "gfB"), Ref(Append(p, "radius")))

GuidedFilterRGB_setEps(p, _eps) ==
     Store(Append(p, "eps"), _eps)
  \o GuidedFilter_I_EQ_P_setEps(Append(p, "gfR"), Ref(Append(p, "eps")))
  \o GuidedFilter_I_EQ_P_setEps(Append(p, "gfG"), Ref(Append(p, "eps")))
  \o GuidedFilter_I_EQ_P_setEps(Append(p, "gfB"), Ref(Append(p, "eps")))

GuidedFilterDepth_ctor(p) ==
     GuidedFilter_I_EQ_P_ctor(Append(p, "gf"))

\* An init of the depth pipeline whose inner filter is configured not to
\* zero anything.
GuidedFilterDepth_init_keeping(W, p, _width, _height, _radius, _eps, _dScaling, _staging) ==
  LET depth == Append(p, "depth")
      gf == Append(p, "gf")
      dScaling == Ref(Append(p, "dScaling"))
  IN    Store(Append(p, "radius"), _radius)
     \o Store(Append(p, "eps"), _eps)
     \o Store(Append(p, "dScaling"), _dScaling)
     \o StagingSwitch(p, <<"hBufferIn">>, <<"hBufferOut">>, _staging)
     \o CreateIfNull(p, <<"dBufferIn", "dBufferOut">>)
     \o Move(Append(depth, "dBufferIn"), Append(p, "dBufferIn"))
     \o AssignNew(Append(depth, "dBufferOut"))
     \o Depth_init(depth, _width, _height, dScaling, "NONE")
     \o Move(Append(gf, "dBufferIn"), Append(depth, "dBufferOut"))
     \o Move(Append(gf, "dBufferOut"), Append(p, "dBufferOut"))
     \o GuidedFilter_I_EQ_P_init(W, gf, _width, _height,
                                 Ref(Append(p, "radius")),
                                 Ref(Append(p, "eps")), IntVal(0),
                                 Float(1, 1000000), RecipRef(Append(p, "dScaling")), "NONE")

GuidedFilterDepth_init(W, p, _width, _height, _radius, _eps, _dScaling, _staging) ==
  LET depth == Append(p, "depth")
      gf == Append(p, "gf")
      dScaling == Ref(Append(p, "dScaling"))
  IN    Store(Append(p, "radius"), _radius)
     \o Store(Append(p, "eps"), _eps)
     \o Store(Append(p, "dScaling"), _dScaling)
     \o StagingSwitch(p, <<"hBufferIn">>, <<"hBufferOut">>, _staging)
     \o CreateIfNull(p, <<"dBufferIn", "dBufferOut">>)
     \o Move(Append(depth, "dBufferIn"), Append(p, "dBufferIn"))
     \o AssignNew(Append(depth, "dBufferOut"))
     \o Depth_init(depth, _width, _height, dScaling, "NONE")
     \o Move(Append(gf, "dBufferIn"), Append(depth, "dBufferOut"))
     \o Move(Append(gf, "dBufferOut"), Append(p, "dBufferOut"))
     \o GuidedFilter_I_EQ_P_init(W, gf, _width, _height,
                                 Ref(Append(p, "radius")),
                                 Ref(Append(p, "eps")), IntVal(1),
                                 Float(1, 1000000), RecipRef(Append(p, "dScaling")), "NONE")

GuidedFilterDepth_setRadius(p, _radius) ==
     Store(Append(p, "radius"), _radius)
  \o GuidedFilter_I_EQ_P_setRadius(Append(p, "gf"), Ref(Append(p, "radius")))

GuidedFilterDepth_setEps(p, _eps) ==
     Store(Append(p, "eps"), _eps)
  \o GuidedFilter_I_EQ_P_setEps(Append(p, "gf"), Ref(Append(p, "eps")))

GuidedFilterDepth_setDScaling(p, _dScaling) ==
  LET dScaling == Ref(Append(p, "dScaling"))
  IN    Store(Append(p, "dScaling"), _dScaling)
     \o Depth_setScaling(Append(p, "depth"), dScaling)
     \o GuidedFilter_I_EQ_P_setOutputScaling(Append(p, "gf"), RecipRef(Append(p, "dScaling")))


(***************************************************************************)
(* The wiring machine: construction, get-assignment, init and setters of   *)
(* one stage                                                               *)
(***************************************************************************)
\* Most calls, get-assignments and setter calls together, that a caller makes
\* on one stage besides init.
MaxCalls == 1


Widths == {0, 48}
Heights == {16}
Radii == {IntVal(1), IntVal(2)}
Flags01 == {IntVal(0), IntVal(1)}
Floats == {Float(1, 1), Float(2, 1)}

\* The scalar arguments of one init call: i1 is the stage's first integer
\* parameter (radius, n, rgbNorm, offset), i2 its second (zero_out), f1..f3
\* its float parameters in order.  A stage ignores those it does not take.
ScalarArgs ==
  {[i1 |-> IntVal(1), i2 |-> IntVal(0),
    f1 |-> Float(1, 1), f2 |-> Float(2, 1), f3 |-> Float(3, 1)],
   [i1 |-> IntVal(2), i2 |-> IntVal(1),
    f1 |-> Float(2, 1), f2 |-> Float(3, 1), f3 |-> Float(1, 1)]}

InitParams ==
  {[width |-> w, height |-> h, staging |-> st, i1 |-> a.i1, i2 |-> a.i2,
    f1 |-> a.f1, f2 |-> a.f2, f3 |-> a.f3] :
     w \in Widths, h \in Heights, st \in Staging, a \in ScalarArgs}

\* The constructor of stage k; _transposed is the SAT constructor's flag.
Construct(k, _transposed) ==
  Run(EmptyWorld,
      CASE k = "SAT" -> SAT_ctor(<<>>, _transposed)
    [] k = "BoxFilterSAT" -> BoxFilterSAT_ctor(<<>>)
    [] k = "GuidedFilter_I_EQ_P" -> GuidedFilter_I_EQ_P_ctor(<<>>)
    [] k = "GuidedFilter_I_NEQ_P" -> GuidedFilter_I_NEQ_P_ctor(<<>>)
    [] k \in {"GuidedFilterRGB_SEPARATED", "GuidedFilterRGB_INTERLEAVED_FLOAT"}
         -> GuidedFilterRGB_ctor(<<>>)
    [] k = "GuidedFilterDepth" -> GuidedFilterDepth_ctor(<<>>)
    [] OTHER -> <<>>)

\* stage.get (mem): the member the returned reference designates.
get(k, W, mem) ==
  CASE k = "SAT" -> SAT_get(W, <<>>, mem)
    [] k = "BoxFilterSAT" -> BoxFilterSAT_get(W, <<>>, mem)
    [] k \in {"GuidedFilterRGB_SEPARATED", "GuidedFilterRGB_INTERLEAVED_FLOAT"}
         -> GuidedFilterRGB_get(<<>>, mem)
    [] OTHER -> <<MemberOf(mem)>>

\* stage.init (...) with the parameters P.
StageInit(k, W, P) ==
  CASE k = "SeparateRGB_FLOAT_FLOAT"
         -> SeparateRGB_init(<<>>, 4, P.width, P.height, P.staging)
    [] k = "SeparateRGB_UCHAR_FLOAT"
         -> SeparateRGB_init(<<>>, 1, P.width, P.height, P.staging)
    [] k \in {"CombineRGB_FLOAT_FLOAT", "CombineRGB_FLOAT_UCHAR"}
         -> CombineRGB_init(<<>>, P.width, P.height, P.staging)
    [] k = "Depth" -> Depth_init(<<>>, P.width, P.height, P.f1, P.staging)
    [] k = "DepthTo3D"
         -> DepthTo3D_init(<<>>, P.width, P.height, P.f1, P.f2, P.staging)
    [] k = "RGBDTo8D"
         -> RGBDTo8D_init(<<>>, P.width, P.height, P.f1, P.f2, P.i1,
                          P.staging)
    [] k = "SplitPC8D"
         -> SplitPC8D_init(<<>>, P.width * P.height, P.i1, P.staging)
    [] k = "RGBNorm" -> RGBNorm_init(<<>>, P.width, P.height, P.staging)
    [] k = "Scan" -> Scan_init(<<>>, P.width, P.height, P.f1, P.staging)
    [] k = "Transpose" -> Transpose_init(<<>>, P.width, P.height, P.staging)
    [] k = "SAT" -> SAT_init(W, <<>>, P.width, P.height, P.f1, P.staging)
    [] k = "BoxFilterSAT"
         -> BoxFilterSAT_init(W, <<>>, P.width, P.height, P.i1, P.f1, P.staging)
    [] k = "BoxFilter"
         -> BoxFilter_init(<<>>, P.width, P.height, P.i1, P.staging)
    [] k = "GuidedFilter_I_EQ_P"
         -> GuidedFilter_I_EQ_P_init(W, <<>>, P.width, P.height, P.i1, P.f1,
                                     P.i2, P.f2, P.f3, P.staging)
    [] k = "GuidedFilter_I_NEQ_P"
         -> GuidedFilter_I_NEQ_P_init(W, <<>>, P.width, P.height, P.i1, P.f1,
                                      P.i2, P.f2, P.staging)
    [] k = "GuidedFilterRGB_SEPARATED"
         -> GuidedFilterRGB_SEPARATED_init(W, <<>>, P.width, P.height, P.i1,
                                           P.f1, P.staging)
    [] k = "GuidedFilterRGB_INTERLEAVED_FLOAT"
         -> GuidedFilterRGB_INTERLEAVED_FLOAT_init(W, <<>>, P.width, P.height,
                                                   P.i1, P.f1, P.staging)
    [] k = "GuidedFilterDepth"
         -> GuidedFilterDepth_init(W, <<>>, P.width, P.height, P.i1, P.f1,
                                   P.f2, P.staging)
    [] k = "Mult" -> Mult_init(<<>>, P.width, P.height, P.staging)
    [] k = "Pown" -> Pown_init(<<>>, P.width, P.height, P.i1, P.staging)

WiringInit ==
  /\ kind \in StageKinds
  /\ phase = "constructed"
  /\ \E tr \in BOOLEAN : /\ kind # "SAT" => tr
                         /\ world = Construct(kind, tr)
  /\ assigned = <<>>
  /\ calls = 0
  /\ last = [op |-> "construct", arg |-> Unset]
  /\ error = "none"
  /\ staging = "unset" /\ hPtr = <<>> /\ content = <<>> /\ queue = <<>>
  /\ cmds = <<>> /\ events = <<>> /\ tokens = <<>>
  /\ started = {} /\ done = {}

\* stage.get (mem) = buffer, before init.
Assign(mem) ==
  /\ phase = "constructed"
  /\ mem \notin DOMAIN assigned
  /\ calls < MaxCalls
  /\ calls' = calls + 1
  /\ world' = Run(world, Store(get(kind, world, mem), CallerBuffer(mem)))
  /\ assigned' = (mem :> CallerBuffer(mem)) @@ assigned
  /\ last' = [op |-> "assign", arg |-> CallerBuffer(mem)]
  /\ UNCHANGED <<kind, phase, error>>
  /\ UNCHANGED <<stagingOnly, schedOnly>>

Init(P) ==
  /\ phase = "constructed"
  /\ world' = Run(world, StageInit(kind, world, P))
  /\ error' = world'.err
  /\ phase' = IF world'.err = "none" THEN "ready" ELSE "exited"
  /\ last' = [op |-> "init", arg |-> Unset]
  /\ UNCHANGED <<kind, assigned, calls>>
  /\ UNCHANGED <<stagingOnly, schedOnly>>

\* A setter call on the initialised stage; prog is the body of the setter of
\* this class.
Setter(name, v, prog) ==
  /\ phase = "ready"
  /\ calls < MaxCalls
  /\ calls' = calls + 1
  /\ world' = Run(world, prog)
  /\ last' = [op |-> name, arg |-> v]
  /\ UNCHANGED <<kind, phase, error, assigned>>
  /\ UNCHANGED <<stagingOnly, schedOnly>>

setScaling(v) ==
  /\ kind \in {"Depth", "DepthTo3D", "RGBDTo8D", "Scan", "SAT", "BoxFilterSAT"}
  /\ Setter("setScaling", v,
            CASE kind = "Depth" -> Depth_setScaling(<<>>, v)
              [] kind = "DepthTo3D" -> DepthTo3D_setScaling(<<>>, v)
              [] kind = "RGBDTo8D" -> RGBDTo8D_setScaling(<<>>, v)
              [] kind = "Scan" -> Scan_setScaling(<<>>, v)
              [] kind = "SAT" -> SAT_setScaling(<<>>, v)
              [] kind = "BoxFilterSAT" -> BoxFilterSAT_setScaling(<<>>, v))

setFocalLength(v) ==
  /\ kind \in {"DepthTo3D", "RGBDTo8D"}
  /\ Setter("setFocalLength", v,
            IF kind = "DepthTo3D" THEN DepthTo3D_setFocalLength(<<>>, v)
            ELSE RGBDTo8D_setFocalLength(<<>>, v))

setRGBNorm(v) ==
  /\ kind = "RGBDTo8D"
  /\ Setter("setRGBNorm", v, RGBDTo8D_setRGBNorm(<<>>, v))

setOffset(v) ==
  /\ kind = "SplitPC8D"
  /\ Setter("setOffset", v, SplitPC8D_setOffset(<<>>, v))

setPower(v) ==
  /\ kind = "Pown"
  /\ Setter("setPower", v, Pown_setPower(<<>>, v))

setRadius(v) ==
  /\ kind \in {"BoxFilterSAT", "BoxFilter", "GuidedFilter_I_EQ_P",
               "GuidedFilter_I_NEQ_P", "GuidedFilterRGB_SEPARATED",
               "GuidedFilterRGB_INTERLEAVED_FLOAT", "GuidedFilterDepth"}
  /\ Setter("setRadius", v,
            CASE kind = "BoxFilterSAT" -> BoxFilterSAT_setRadius(<<>>, v)
              [] kind = "BoxFilter" -> BoxFilter_setRadius(<<>>, v)
              [] kind = "GuidedFilter_I_EQ_P"
                   -> GuidedFilter_I_EQ_P_setRadius(<<>>, v)
              [] kind = "GuidedFilter_I_NEQ_P"
                   -> GuidedFilter_I_NEQ_P_setRadius(<<>>, v)
              [] kind = "GuidedFilterDepth"
                   -> GuidedFilterDepth_setRadius(<<>>, v)
              [] OTHER -> GuidedFilterRGB_setRadius(<<>>, v))

setEps(v) ==
  /\ kind \in {"GuidedFilter_I_EQ_P", "GuidedFilter_I_NEQ_P",
               "GuidedFilterRGB_SEPARATED",
               "GuidedFilterRGB_INTERLEAVED_FLOAT", "GuidedFilterDepth"}
  /\ Setter("setEps", v,
            CASE kind = "GuidedFilter_I_EQ_P"
                   -> GuidedFilter_I_EQ_P_setEps(<<>>, v)
              [] kind = "GuidedFilter_I_NEQ_P"
                   -> GuidedFilter_I_NEQ_P_setEps(<<>>, v)
              [] kind = "GuidedFilterDepth"
                   -> GuidedFilterDepth_setEps(<<>>, v)
              [] OTHER -> GuidedFilterRGB_setEps(<<>>, v))

setBoxScaling(v) ==
  /\ kind \in {"GuidedFilter_I_EQ_P", "GuidedFilter_I_NEQ_P"}
  /\ Setter("setBoxScaling", v,
            IF kind = "GuidedFilter_I_EQ_P"
            THEN GuidedFilter_I_EQ_P_setBoxScaling(<<>>, v)
            ELSE GuidedFilter_I_NEQ_P_setBoxScaling(<<>>, v))

setOutputScaling(v) ==
  /\ kind = "GuidedFilter_I_EQ_P"
  /\ Setter("setOutputScaling", v,
            GuidedFilter_I_EQ_P_setOutputScaling(<<>>, v))

setZeroing(v) ==
  /\ kind \in {"GuidedFilter_I_EQ_P", "GuidedFilter_I_NEQ_P"}
  /\ Setter("setZeroing", v,
            IF kind = "GuidedFilter_I_EQ_P"
            THEN GuidedFilter_I_EQ_P_setZeroing(<<>>, v)
            ELSE GuidedFilter_I_NEQ_P_setZeroing(<<>>, v))

setDScaling(v) ==
  /\ kind = "GuidedFilterDepth"
  /\ Setter("setDScaling", v, GuidedFilterDepth_setDScaling(<<>>, v))

WiringNext ==
  \/ \E mem \in Memory(kind) : Assign(mem)
  \/ \E P \in InitParams : Init(P)
  \/ \E v \in Floats : setScaling(v)
  \/ \E v \in Floats : setFocalLength(v)
  \/ \E v \in Flags01 : setRGBNorm(v)
  \/ \E v \in Flags01 : setOffset(v)
  \/ \E v \in Radii : setPower(v)
  \/ \E v \in Radii : setRadius(v)
  \/ \E v \in Floats : setEps(v)
  \/ \E v \in Floats : setBoxScaling(v)
  \/ \E v \in Floats : setOutputScaling(v)
  \/ \E v \in Flags01 : setZeroing(v)
  \/ \E v \in Floats : setDScaling(v)

(***************************************************************************)
(* run (): the kernel executions a stage enqueues, the events it hands     *)
(* around, and the device executing the in-order queues                    *)
(***************************************************************************)
\* A null events / event pointer, and the cl::Event the caller passes.
NullPtr == <<"nullptr">>
CallerEvent == <<"*event">>

\* queue.enqueueNDRangeKernel (kernel, ..., events, event)
enqueueNDRangeKernel(qu, kernel, _events, _event) ==
  <<[st |-> "enqueue", queue |-> qu, kernel |-> kernel, events |-> _events,
     event |-> _event]>>

\* waitList[0] = event;
SetWaitList(list, _event) == <<[st |-> "wait", list |-> list, event |-> _event]>>

\* The command an event or one-element wait list of host state H names; 0 is
\* a default-constructed cl::Event.
Event(H, slot) == IF slot \in DOMAIN H.ev THEN H.ev[slot] ELSE 0

WaitList(H, _events) == IF _events = NullPtr THEN {} ELSE {Event(H, _events)}

\* One statement of run () on host state H: an enqueue appends a command
\* that waits for the events of its wait list and, when the event pointer is
\* not null, stores the command's event through it.  A wait list holding a
\* null event makes the enqueue fail.
Issue(H, s) ==
  IF Exited(H) THEN H
  ELSE IF s.st = "wait"
  THEN [H EXCEPT !.ev = (s.list :> Event(H, s.event)) @@ H.ev]
  ELSE IF 0 \in WaitList(H, s.events)
  THEN [H EXCEPT !.err = "CL_INVALID_EVENT_WAIT_LIST"]
  ELSE [H EXCEPT
          !.cmds = Append(H.cmds, [kernel |-> s.kernel, queue |-> s.queue,
                                   wait |-> WaitList(H, s.events),
                                   run |-> H.run]),
          !.ev = IF s.event = NullPtr THEN H.ev
                 ELSE (s.event :> Len(H.cmds) + 1) @@ H.ev]

\* The host state after the statements of prog, executed in order.
RECURSIVE Execute(_, _)
Execute(H, prog) ==
  IF Exited(H) \/ prog = <<>> THEN H
  ELSE IF Len(prog) = 1 THEN Issue(H, prog[1])
  ELSE Execute(Execute(H, SubSeq(prog, 1, Len(prog) \div 2)),
               SubSeq(prog, Len(prog) \div 2 + 1, Len(prog)))

\* info.getCLEnvInfo (i): the i-th of the owner's queues qs.
getCLEnvInfo(qs, i) == <<qs[i + 1]>>

\* run () of the stages that own one kernel and one queue.
Kernel_run(p, qs, _events, _event) ==
  enqueueNDRangeKernel(qs[1], Append(p, "kernel"), _events, _event)

Scan_run(W, p, qs, _events, _event) ==
  IF Load(W, Append(p, "wgXdim")) = IntVal(1)
  THEN enqueueNDRangeKernel(qs[1], Append(p, "kernelScan"), _events, _event)
  ELSE    enqueueNDRangeKernel(qs[1], Append(p, "kernelScan"), _events,
                               NullPtr)
       \o enqueueNDRangeKernel(qs[1], Append(p, "kernelSumsScan"), NullPtr,
                               NullPtr)
       \o enqueueNDRangeKernel(qs[1], Append(p, "kernelAddSums"), NullPtr,
                               _event)

\* A run of SAT that scans the rows only.
SAT_run_rows(W, p, qs, _events, _event) ==
     Scan_run(W, Append(p, "scanRows"), qs, _events, NullPtr)
  \o Kernel_run(Append(p, "transpose1"), qs, NullPtr, NullPtr)
  \o (IF Load(W, Append(p, "transposed")) = Flag(TRUE) THEN <<>>
      ELSE Kernel_run(Append(p, "transpose2"), qs, NullPtr, _event))

\* A run that transposes back whatever the constructor was told.
SAT_run_back(W, p, qs, _events, _event) ==
     Scan_run(W, Append(p, "scanRows"), qs, _events, NullPtr)
  \o Kernel_run(Append(p, "transpose1"), qs, NullPtr, NullPtr)
  \o Scan_run(W, Append(p, "scanColumns"), qs, NullPtr, NullPtr)
  \o Kernel_run(Append(p, "transpose2"), qs, NullPtr, _event)

SAT_run(W, p, qs, _events, _event) ==
     Scan_run(W, Append(p, "scanRows"), qs, _events, NullPtr)
  \o Kernel_run(Append(p, "transpose1"), qs, NullPtr, NullPtr)
  \o Scan_run(W, Append(p, "scanColumns"), qs, NullPtr, NullPtr)
  \o (IF Load(W, Append(p, "transposed")) = Flag(TRUE) THEN <<>>
      ELSE Kernel_run(Append(p, "transpose2"), qs, NullPtr, _event))

BoxFilterSAT_run(W, p, qs, _events, _event) ==
     SAT_run(W, Append(p, "sat"), qs, _events, NullPtr)
  \o enqueueNDRangeKernel(qs[1], Append(p, "kernel"), NullPtr, _event)

\* The queue each inner stage of GuidedFilter<I_EQ_P> is constructed on.
GuidedFilter_I_EQ_P_info(qs, member) ==
  IF member \in {"mean_p", "mean_a"} THEN getCLEnvInfo(qs, 0)
  ELSE getCLEnvInfo(qs, 1)

\* A run of the self-guided filter whose ab kernel waits for nothing.
GuidedFilter_I_EQ_P_run_unsynchronised(W, p, qs, _events, _event) ==
     BoxFilterSAT_run(W, Append(p, "mean_p"),
                      GuidedFilter_I_EQ_P_info(qs, "mean_p"), _events, NullPtr)
  \o Kernel_run(Append(p, "squared"),
                GuidedFilter_I_EQ_P_info(qs, "squared"), _events, NullPtr)
  \o BoxFilterSAT_run(W, Append(p, "mean_p2"),
                      GuidedFilter_I_EQ_P_info(qs, "mean_p2"), NullPtr,
                      Append(p, "p2Event"))
  \o enqueueNDRangeKernel(qs[1], Append(p, "ab"), NullPtr,
                          Append(p, "abEvent"))
  \o BoxFilterSAT_run(W, Append(p, "mean_a"),
                      GuidedFilter_I_EQ_P_info(qs, "mean_a"), NullPtr, NullPtr)
  \o SetWaitList(Append(p, "waitListMB"), Append(p, "abEvent"))
  \o BoxFilterSAT_run(W, Append(p, "mean_b"),
                      GuidedFilter_I_EQ_P_info(qs, "mean_b"),
                      Append(p, "waitListMB"), Append(p, "mbEvent"))
  \o SetWaitList(Append(p, "waitListQ"), Append(p, "mbEvent"))
  \o enqueueNDRangeKernel(qs[1], Append(p, "q"), Append(p, "waitListQ"),
                          _event)

\* A run of the self-guided filter none of whose stages waits for another.
GuidedFilter_I_EQ_P_run_unordered(W, p, qs, _events, _event) ==
     BoxFilterSAT_run(W, Append(p, "mean_p"),
                      GuidedFilter_I_EQ_P_info(qs, "mean_p"), _events, NullPtr)
  \o Kernel_run(Append(p, "squared"),
                GuidedFilter_I_EQ_P_info(qs, "squared"), _events, NullPtr)
  \o BoxFilterSAT_run(W, Append(p, "mean_p2"),
                      GuidedFilter_I_EQ_P_info(qs, "mean_p2"), NullPtr,
                      Append(p, "p2Event"))
  \o enqueueNDRangeKernel(qs[1], Append(p, "ab"), NullPtr,
                          Append(p, "abEvent"))
  \o BoxFilterSAT_run(W, Append(p, "mean_a"),
                      GuidedFilter_I_EQ_P_info(qs, "mean_a"), NullPtr, NullPtr)
  \o BoxFilterSAT_run(W, Append(p, "mean_b"),
                      GuidedFilter_I_EQ_P_info(qs, "mean_b"), NullPtr,
                      Append(p, "mbEvent"))
  \o enqueueNDRangeKernel(qs[1], Append(p, "q"), NullPtr, _event)

\* A run of the self-guided filter that does not average b.
GuidedFilter_I_EQ_P_run_no_mean_b(W, p, qs, _events, _event) ==
     BoxFilterSAT_run(W, Append(p, "mean_p"),
                      GuidedFilter_I_EQ_P_info(qs, "mean_p"), _events, NullPtr)
  \o Kernel_run(Append(p, "squared"),
                GuidedFilter_I_EQ_P_info(qs, "squared"), _events, NullPtr)
  \o BoxFilterSAT_run(W, Append(p, "mean_p2"),
                      GuidedFilter_I_EQ_P_info(qs, "mean_p2"), NullPtr,
                      Append(p, "p2Event"))
  \o SetWaitList(Append(p, "waitListAB"), Append(p, "p2Event"))
  \o enqueueNDRangeKernel(qs[1], Append(p, "ab"), Append(p, "waitListAB"),
                          Append(p, "abEvent"))
  \o BoxFilterSAT_run(W, Append(p, "mean_a"),
                      GuidedFilter_I_EQ_P_info(qs, "mean_a"), NullPtr,
                      Append(p, "mbEvent"))
  \o SetWaitList(Append(p, "waitListQ"), Append(p, "mbEvent"))
  \o enqueueNDRangeKernel(qs[1], Append(p, "q"), Append(p, "waitListQ"),
                          _event)

\* A run of the self-guided filter that does not average a.
GuidedFilter_I_EQ_P_run_no_mean_a(W, p, qs, _events, _event) ==
     BoxFilterSAT_run(W, Append(p, "mean_p"),
                      GuidedFilter_I_EQ_P_info(qs, "mean_p"), _events, NullPtr)
  \o Kernel_run(Append(p, "squared"),
                GuidedFilter_I_EQ_P_info(qs, "squared"), _events, NullPtr)
  \o BoxFilterSAT_run(W, Append(p, "mean_p2"),
                      GuidedFilter_I_EQ_P_info(qs, "mean_p2"), NullPtr,
                      Append(p, "p2Event"))
  \o SetWaitList(Append(p, "waitListAB"), Append(p, "p2Event"))
  \o enqueueNDRangeKernel(qs[1], Append(p, "ab"), Append(p, "waitListAB"),
                          Append(p, "abEvent"))
  \o SetWaitList(Append(p, "waitListMB"), Append(p, "abEvent"))
  \o BoxFilterSAT_run(W, Append(p, "mean_b"),
                      GuidedFilter_I_EQ_P_info(qs, "mean_b"),
                      Append(p, "waitListMB"), Append(p, "mbEvent"))
  \o SetWaitList(Append(p, "waitListQ"), Append(p, "mbEvent"))
  \o enqueueNDRangeKernel(qs[1], Append(p, "q"), Append(p, "waitListQ"),
                          _event)

GuidedFilter_I_EQ_P_run(W, p, qs, _events, _event) ==
     BoxFilterSAT_run(W, Append(p, "mean_p"),
                      GuidedFilter_I_EQ_P_info(qs, "mean_p"), _events, NullPtr)
  \o Kernel_run(Append(p, "squared"),
                GuidedFilter_I_EQ_P_info(qs, "squared"), _events, NullPtr)
  \o BoxFilterSAT_run(W, Append(p, "mean_p2"),
                      GuidedFilter_I_EQ_P_info(qs, "mean_p2"), NullPtr,
                      Append(p, "p2Event"))
  \o SetWaitList(Append(p, "waitListAB"), Append(p, "p2Event"))
  \o enqueueNDRangeKernel(qs[1], Append(p, "ab"), Append(p, "waitListAB"),
                          Append(p, "abEvent"))
  \o BoxFilterSAT_run(W, Append(p, "mean_a"),
                      GuidedFilter_I_EQ_P_info(qs, "mean_a"), NullPtr, NullPtr)
  \o SetWaitList(Append(p, "waitListMB"), Append(p, "abEvent"))
  \o BoxFilterSAT_run(W, Append(p, "mean_b"),
                      GuidedFilter_I_EQ_P_info(qs, "mean_b"),
                      Append(p, "waitListMB"), Append(p, "mbEvent"))
  \o SetWaitList(Append(p, "waitListQ"), Append(p, "mbEvent"))
  \o enqueueNDRangeKernel(qs[1], Append(p, "q"), Append(p, "waitListQ"),
                          _event)

\* The queue each inner stage of GuidedFilter<I_NEQ_P> is constructed on.
GuidedFilter_I_NEQ_P_info(qs, member) ==
  IF member \in {"mean_I", "corr_I", "mean_a", "mult_II"}
  THEN getCLEnvInfo(qs, 0) ELSE getCLEnvInfo(qs, 1)

\* A tail of the cross-guided run that does not enqueue the kernel ab.
GuidedFilter_I_NEQ_P_runTail_no_ab(W, p, qs, _event) ==
     BoxFilterSAT_run(W, Append(p, "mean_a"),
                      GuidedFilter_I_NEQ_P_info(qs, "mean_a"), NullPtr,
                      NullPtr)
  \o BoxFilterSAT_run(W, Append(p, "mean_b"),
                      GuidedFilter_I_NEQ_P_info(qs, "mean_b"),
                      NullPtr, Append(p, "mbEvent"))
  \o SetWaitList(Append(p, "waitListQ"), Append(p, "mbEvent"))
  \o enqueueNDRangeKernel(qs[1], Append(p, "q"), Append(p, "waitListQ"),
                          _event)

\* The part of the cross-guided run after the variance kernel is enqueued.
GuidedFilter_I_NEQ_P_runTail(W, p, qs, _event) ==
     enqueueNDRangeKernel(qs[1], Append(p, "ab"), NullPtr,
                          Append(p, "abEvent"))
  \o BoxFilterSAT_run(W, Append(p, "mean_a"),
                      GuidedFilter_I_NEQ_P_info(qs, "mean_a"), NullPtr,
                      NullPtr)
  \o SetWaitList(Append(p, "waitListMB"), Append(p, "abEvent"))
  \o BoxFilterSAT_run(W, Append(p, "mean_b"),
                      GuidedFilter_I_NEQ_P_info(qs, "mean_b"),
                      Append(p, "waitListMB"), Append(p, "mbEvent"))
  \o SetWaitList(Append(p, "waitListQ"), Append(p, "mbEvent"))
  \o enqueueNDRangeKernel(qs[1], Append(p, "q"), Append(p, "waitListQ"),
                          _event)

\* The part of the cross-guided run before the variance kernel is enqueued.
GuidedFilter_I_NEQ_P_runHead(W, p, qs, _events) ==
     BoxFilterSAT_run(W, Append(p, "mean_I"),
                      GuidedFilter_I_NEQ_P_info(qs, "mean_I"), _events, NullPtr)
  \o BoxFilterSAT_run(W, Append(p, "mean_p"),
                      GuidedFilter_I_NEQ_P_info(qs, "mean_p"), _events, NullPtr)
  \o Kernel_run(Append(p, "mult_II"),
                GuidedFilter_I_NEQ_P_info(qs, "mult_II"), _events, NullPtr)
  \o BoxFilterSAT_run(W, Append(p, "corr_I"),
                      GuidedFilter_I_NEQ_P_info(qs, "corr_I"), NullPtr, NullPtr)
  \o Kernel_run(Append(p, "mult_Ip"),
                GuidedFilter_I_NEQ_P_info(qs, "mult_Ip"), _events, NullPtr)
  \o BoxFilterSAT_run(W, Append(p, "corr_Ip"),
                      GuidedFilter_I_NEQ_P_info(qs, "corr_Ip"), NullPtr,
                      Append(p, "corrIpEvent"))
  \o SetWaitList(Append(p, "waitListVar"), Append(p, "corrIpEvent"))

\* A run of the cross-guided filter whose variance kernel waits for nothing.
GuidedFilter_I_NEQ_P_run_unsynchronised(W, p, qs, _events, _event) ==
     GuidedFilter_I_NEQ_P_runHead(W, p, qs, _events)
  \o enqueueNDRangeKernel(qs[1], Append(p, "var"), NullPtr, NullPtr)
  \o GuidedFilter_I_NEQ_P_runTail(W, p, qs, _event)

GuidedFilter_I_NEQ_P_run(W, p, qs, _events, _event) ==
     GuidedFilter_I_NEQ_P_runHead(W, p, qs, _events)
  \o enqueueNDRangeKernel(qs[1], Append(p, "var"), Append(p, "waitListVar"),
                          NullPtr)
  \o GuidedFilter_I_NEQ_P_runTail(W, p, qs, _event)

\* A depth pipeline run that fills its wait list before the depth kernel is
\* enqueued, from whatever dEvent held.
GuidedFilterDepth_run_stale(W, p, qs, _events, _event) ==
     SetWaitList(Append(p, "waitList"), Append(p, "dEvent"))
  \o Kernel_run(Append(p, "depth"), getCLEnvInfo(qs, 0), _events,
                Append(p, "dEvent"))
  \o GuidedFilter_I_EQ_P_run(W, Append(p, "gf"), qs, Append(p, "waitList"),
                             _event)

GuidedFilterDepth_run(W, p, qs, _events, _event) ==
     Kernel_run(Append(p, "depth"), getCLEnvInfo(qs, 0), _events,
                Append(p, "dEvent"))
  \o SetWaitList(Append(p, "waitList"), Append(p, "dEvent"))
  \o GuidedFilter_I_EQ_P_run(W, Append(p, "gf"), qs, Append(p, "waitList"),
                             _event)

\* Every per-channel filter on a pair of queues of its own.
GuidedFilterRGB_info_apart(qs, member) ==
  CASE member \in {"sRGB", "cRGB"} -> getCLEnvInfo(qs, 0)
    [] member = "gfR" -> qs
    [] member = "gfG" -> <<qs[1] + 2, qs[2] + 2>>
    [] OTHER -> <<qs[1] + 4, qs[2] + 4>>

\* The queues each inner stage of the RGB pipelines is constructed on: the
\* channel splitter and combiner on the first queue, every per-channel
\* filter on the pipeline's own info.
GuidedFilterRGB_info(qs, member) ==
  IF member \in {"sRGB", "cRGB"} THEN getCLEnvInfo(qs, 0) ELSE qs

\* A run of the pipeline that hands the caller's event to the first of the
\* channel filters.
GuidedFilterRGB_SEPARATED_run_early(W, p, qs, _events, _event) ==
     Kernel_run(Append(p, "sRGB"), GuidedFilterRGB_info(qs, "sRGB"), _events,
                Append(p, "sEvent"))
  \o SetWaitList(Append(p, "waitList"), Append(p, "sEvent"))
  \o GuidedFilter_I_EQ_P_run(W, Append(p, "gfR"),
                             GuidedFilterRGB_info(qs, "gfR"),
                             Append(p, "waitList"), _event)
  \o GuidedFilter_I_EQ_P_run(W, Append(p, "gfG"),
                             GuidedFilterRGB_info(qs, "gfG"), NullPtr, NullPtr)
  \o GuidedFilter_I_EQ_P_run(W, Append(p, "gfB"),
                             GuidedFilterRGB_info(qs, "gfB"), NullPtr, NullPtr)

GuidedFilterRGB_SEPARATED_run(W, p, qs, _events, _event) ==
     Kernel_run(Append(p, "sRGB"), GuidedFilterRGB_info(qs, "sRGB"), _events,
                Append(p, "sEvent"))
  \o SetWaitList(Append(p, "waitList"), Append(p, "sEvent"))
  \o GuidedFilter_I_EQ_P_run(W, Append(p, "gfR"),
                             GuidedFilterRGB_info(qs, "gfR"),
                             Append(p, "waitList"), NullPtr)
  \o GuidedFilter_I_EQ_P_run(W, Append(p, "gfG"),
                             GuidedFilterRGB_info(qs, "gfG"), NullPtr, NullPtr)
  \o GuidedFilter_I_EQ_P_run(W, Append(p, "gfB"),
                             GuidedFilterRGB_info(qs, "gfB"), NullPtr, _event)

GuidedFilterRGB_INTERLEAVED_FLOAT_run(W, p, qs, _events, _event) ==
     Kernel_run(Append(p, "sRGB"), GuidedFilterRGB_info(qs, "sRGB"), _events,
                Append(p, "sEvent"))
  \o SetWaitList(Append(p, "waitList"), Append(p, "sEvent"))
  \o GuidedFilter_I_EQ_P_run(W, Append(p, "gfR"),
                             GuidedFilterRGB_info(qs, "gfR"),
                             Append(p, "waitList"), NullPtr)
  \o GuidedFilter_I_EQ_P_run(W, Append(p, "gfG"),
                             GuidedFilterRGB_info(qs, "gfG"), NullPtr, NullPtr)
  \o GuidedFilter_I_EQ_P_run(W, Append(p, "gfB"),
                             GuidedFilterRGB_info(qs, "gfB"), NullPtr, NullPtr)
  \o Kernel_run(Append(p, "cRGB"), GuidedFilterRGB_info(qs, "cRGB"), NullPtr,
                _event)

\* stage.run (nullptr, event) of stage k.
StageRun(k, W, _event) ==
  CASE k = "Scan" -> Scan_run(W, <<>>, <<0>>, NullPtr, _event)
    [] k = "SAT" -> SAT_run(W, <<>>, <<0>>, NullPtr, _event)
    [] k = "BoxFilterSAT" -> BoxFilterSAT_run(W, <<>>, <<0>>, NullPtr, _event)
    [] k = "GuidedFilter_I_EQ_P"
         -> GuidedFilter_I_EQ_P_run(W, <<>>, <<0, 1>>, NullPtr, _event)
    [] k = "GuidedFilter_I_NEQ_P"
         -> GuidedFilter_I_NEQ_P_run(W, <<>>, <<0, 1>>, NullPtr, _event)
    [] k = "GuidedFilterDepth"
         -> GuidedFilterDepth_run(W, <<>>, <<0, 1>>, NullPtr, _event)
    [] k = "GuidedFilterRGB_SEPARATED"
         -> GuidedFilterRGB_SEPARATED_run(W, <<>>, <<0, 1>>, NullPtr, _event)
    [] k = "GuidedFilterRGB_INTERLEAVED_FLOAT"
         -> GuidedFilterRGB_INTERLEAVED_FLOAT_run(W, <<>>, <<0, 1>>, NullPtr,
                                                  _event)
    [] OTHER -> Kernel_run(<<>>, <<0>>, NullPtr, _event)

\* The stages whose run () is followed here: every class on its own and the
\* depth pipeline.
RunKinds ==
  StageKinds \ {"GuidedFilterRGB_SEPARATED", "GuidedFilterRGB_INTERLEAVED_FLOAT"}

\* Most run () calls made on one stage.
MaxRuns == 1

\* Image widths of the stages that run: one work-group per row, and several.
RunWidths == {16, 48}

RunParams ==
  {[P EXCEPT !.width = w] :
     P \in {Q \in InitParams : Q.staging = "NONE" /\ Q.i1 = IntVal(1)},
     w \in RunWidths}

\* The stage was constructed and initialised; run () was not called yet.
SchedInit ==
  /\ kind \in RunKinds
  /\ phase = "ready"
  /\ \E tr \in BOOLEAN, P \in RunParams :
       /\ kind # "SAT" => tr
       /\ world = Run(Construct(kind, tr),
                      StageInit(kind, Construct(kind, tr), P))
  /\ world.err = "none"
  /\ assigned = <<>>
  /\ calls = 0
  /\ last = [op |-> "init", arg |-> Unset]
  /\ error = "none"
  /\ staging = "unset" /\ hPtr = <<>> /\ content = <<>> /\ queue = <<>>
  /\ cmds = <<>> /\ events = <<>> /\ tokens = <<>>
  /\ started = {} /\ done = {}

\* The host state run () starts from: the caller's event is a fresh
\* cl::Event.
HostBefore ==
  [cmds |-> cmds, ev |-> events, err |-> "none", run |-> Len(tokens) + 1]

HostAfter(_event) == Execute(HostBefore, StageRun(kind, world, _event))

\* The effect of stage.run (nullptr, event) on the host: the commands it
\* enqueues, the events its members hold afterwards, and the caller's event.
Enqueues(_event) ==
  /\ phase = "ready"
  /\ \E H \in {HostAfter(_event)} :
       /\ cmds' = H.cmds
       /\ events' = [slot \in DOMAIN H.ev \ {CallerEvent} |-> H.ev[slot]]
       /\ tokens' = Append(tokens, [requested |-> _event # NullPtr,
                                    id |-> Event(H, CallerEvent)])
       /\ error' = H.err
  /\ last' = [op |-> "run", arg |-> Unset]
  /\ UNCHANGED <<kind, phase, started, done>>
  /\ UNCHANGED <<stagingOnly, wiringOnly>>

\* stage.run (nullptr, event); event is null or points to a fresh cl::Event.
run(_event) ==
  /\ Len(tokens) < MaxRuns
  /\ Enqueues(_event)

\* Commands enqueued before command i on the same queue.
Earlier(i) == {j \in 1..(i - 1) : cmds[j].queue = cmds[i].queue}

\* The device starts command i: the queues are in-order, and the events of
\* the wait list are complete.
Start(i) ==
  /\ i \notin started
  /\ Earlier(i) \subseteq done
  /\ cmds[i].wait \subseteq done
  /\ started' = started \cup {i}
  /\ UNCHANGED <<kind, phase, last, error, cmds, events, tokens, done>>
  /\ UNCHANGED <<stagingOnly, wiringOnly>>

\* The device completes command i.
Complete(i) ==
  /\ i \in started \ done
  /\ done' = done \cup {i}
  /\ UNCHANGED <<kind, phase, last, error, cmds, events, tokens, started>>
  /\ UNCHANGED <<stagingOnly, wiringOnly>>

SchedNext ==
  \/ \E _event \in {NullPtr, CallerEvent} : run(_event)
  \/ \E i \in 1..Len(cmds) : Start(i)
  \/ \E i \in 1..Len(cmds) : Complete(i)

(***************************************************************************)
(* The host alone: run () called again and again on one stage, the RGB     *)
(* pipelines included, whatever the device has completed meanwhile.        *)
(***************************************************************************)
\* Most run () calls the host makes on one stage when the device is left out.
MaxInvocations == 2

HostInit ==
  /\ kind \in StageKinds
  /\ phase = "ready"
  /\ \E tr \in BOOLEAN, P \in RunParams :
       /\ kind # "SAT" => tr
       /\ world = Run(Construct(kind, tr),
                      StageInit(kind, Construct(kind, tr), P))
  /\ world.err = "none"
  /\ assigned = <<>>
  /\ calls = 0
  /\ last = [op |-> "init", arg |-> Unset]
  /\ error = "none"
  /\ staging = "unset" /\ hPtr = <<>> /\ content = <<>> /\ queue = <<>>
  /\ cmds = <<>> /\ events = <<>> /\ tokens = <<>>
  /\ started = {} /\ done = {}

\* stage.run (nullptr, event), the device's progress left aside.
invoke(_event) ==
  /\ Len(tokens) < MaxInvocations
  /\ Enqueues(_event)

HostNext == \E _event \in {NullPtr, CallerEvent} : invoke(_event)

(***************************************************************************)
(* Configuration: a stage is constructed on a device and initialised once, *)
(* with dimensions that may be zero or break the stage's requirements.     *)
(***************************************************************************)
\* CL_DEVICE_MAX_WORK_ITEM_SIZES (first two entries) and
\* CL_DEVICE_MAX_WORK_GROUP_SIZE of the devices a stage is constructed on.
Devices ==
  {[maxLocalDim |-> <<x, y>>, maxLocalSize |-> n] :
     x \in {8, 16}, y \in {8, 16}, n \in {128, 256}}

\* The stages that construct a BoxFilterSAT or are a box filter.
BoxFilterOwners ==
  {"BoxFilterSAT", "BoxFilter", "GuidedFilter_I_EQ_P", "GuidedFilter_I_NEQ_P",
   "GuidedFilterRGB_SEPARATED", "GuidedFilterRGB_INTERLEAVED_FLOAT",
   "GuidedFilterDepth"}

\* The device check of the constructors of BoxFilterSAT and BoxFilter.
\* A device check that looks at the work-item sizes only.
WorkGroupCheck_dims(k, device) ==
  IF k \notin BoxFilterOwners THEN <<>>
  ELSE Check(lXdim > device.maxLocalDim[1] \/ lYdim > device.maxLocalDim[2],
             "The maximum work-group dimensions are not enough (16x16 work-groups are required) on this device")

WorkGroupCheck(k, device) ==
  IF k \notin BoxFilterOwners THEN <<>>
  ELSE    Check(lXdim > device.maxLocalDim[1] \/ lYdim > device.maxLocalDim[2],
                "The maximum work-group dimensions are not enough (16x16 work-groups are required) on this device")
       \o Check(lXdim * lYdim > device.maxLocalSize,
                "The maximum work-group size is not enough (256 work-items per work-group are required) on this device")

ConfigWidths == {0, 4, 6, 16, 48, 200, 256, 260}
ConfigHeights == {0, 6, 16}

ConfigParams ==
  {[P EXCEPT !.width = w, !.height = h] :
     P \in {Q \in InitParams : Q.staging = "NONE" /\ Q.i1 = IntVal(1)},
     w \in ConfigWidths, h \in ConfigHeights}

\* No stage exists yet; the device is chosen.
ConfigInit ==
  /\ kind \in StageKinds
  /\ phase = "unbuilt"
  /\ last \in {[op |-> "device", arg |-> d] : d \in Devices}
  /\ error = "none"
  /\ world = EmptyWorld /\ assigned = <<>> /\ calls = 0
  /\ staging = "unset" /\ hPtr = <<>> /\ content = <<>> /\ queue = <<>>
  /\ cmds = <<>> /\ events = <<>> /\ tokens = <<>>
  /\ started = {} /\ done = {}

\* Stage stage (env, info [, _transposed]) on the chosen device.
construct(_transposed) ==
  /\ phase = "unbuilt"
  /\ kind # "SAT" => _transposed
  /\ \E W \in {Run(EmptyWorld, WorkGroupCheck(kind, last.arg))} :
       /\ world' = IF Exited(W) THEN W ELSE Construct(kind, _transposed)
       /\ error' = W.err
       /\ phase' = IF Exited(W) THEN "exited" ELSE "constructed"
  /\ last' = [op |-> "construct", arg |-> last.arg]
  /\ UNCHANGED <<kind, assigned, calls>>
  /\ UNCHANGED <<stagingOnly, schedOnly>>

\* What std::cerr receives for exit message e.  Scan::init throws
\* ss.str ().c_str () for a row that is too wide: the handler prints through
\* a pointer into a destroyed string, so the text is indeterminate.
Logged(e) ==
  IF e = "The current configuration of Scan supports arrays of up to (8 * wgMultiple)^2 columns"
  THEN {e, "indeterminate text"}
  ELSE {e}

\* stage.init (P.width, P.height, ...)
configure(P) ==
  /\ phase = "constructed"
  /\ \E W \in {Run(world, StageInit(kind, world, P))} :
       /\ world' = W
       /\ error' \in Logged(W.err)
       /\ phase' = IF Exited(W) THEN "exited" ELSE "ready"
  /\ last' = [op |-> "init", arg |-> P]
  /\ UNCHANGED <<kind, assigned, calls>>
  /\ UNCHANGED <<stagingOnly, schedOnly>>

ConfigNext ==
  \/ \E _transposed \in BOOLEAN : construct(_transposed)
  \/ \E P \in ConfigParams : configure(P)

(***************************************************************************)
(* The device's memory: a Scan stage, and two Transpose stages wired one   *)
(* after the other as SAT::init wires transpose1 and transpose2, run on    *)
(* data.  Arrays are row-major sequences of integers; element i of the     *)
(* source's arrays (counted from 0) is element i + 1 here.  Sums of        *)
(* integers are exact: the rounding of float sums is left out.             *)
(***************************************************************************)
\* Most run () calls made on the stages whose data is followed.
MaxLaunches == 1

\* cl::NDRange (x, y); cl::NullRange as an offset is no offset.
NDRange(x, y) == [range |-> <<x, y>>]
NullRange == NDRange(0, 0)

\* The members Scan::init sets besides buffers and kernel arguments: the
\* dimensions, the buffer sizes (in elements) and the workspaces.
Scan_geometry(p, _width, _height) ==
  LET wgXdim == WgXdim(_width)
  IN    Store(Append(p, "width"), IntVal(_width))
     \o Store(Append(p, "height"), IntVal(_height))
     \o Store(Append(p, "bufferSize"), IntVal(_width * _height))
     \o Store(Append(p, "bufferSumsSize"), IntVal(wgXdim * _height))
     \o Store(Append(p, "globalScan"), NDRange(wgXdim * WgMultiple, _height))
     \o Store(Append(p, "localScan"), NDRange(WgMultiple, 1))
     \o Store(Append(p, "globalSumsScan"), NDRange(WgMultiple, _height))
     \o Store(Append(p, "globalAddSums"),
              NDRange(2 * (wgXdim - 1) * WgMultiple, _height))
     \o Store(Append(p, "localAddSums"), NDRange(2 * WgMultiple, 1))
     \o Store(Append(p, "offsetAddSums"), NDRange(2 * WgMultiple, 0))

\* The same members of Transpose::init.
Transpose_geometry(p, _width, _height) ==
  LET lSide == LSide(_width \div 4, _height \div 4, 16)
  IN    Store(Append(p, "width"), IntVal(_width))
     \o Store(Append(p, "height"), IntVal(_height))
     \o Store(Append(p, "bufferSize"), IntVal(_width * _height))
     \o Store(Append(p, "global"), NDRange(_width \div 4, _height \div 4))
     \o Store(Append(p, "local"), NDRange(lSide, lSide))

\* width, height and bufferSize (in elements) of a stage.
Dimensions(p, _width, _height) ==
     Store(Append(p, "width"), IntVal(_width))
  \o Store(Append(p, "height"), IntVal(_height))
  \o Store(Append(p, "bufferSize"), IntVal(_width * _height))

\* The same members of SAT::init, with those of the stages it initialises.
SAT_geometry(W, p, _width, _height) ==
     Dimensions(p, _width, _height)
  \o Scan_geometry(Append(p, "scanRows"), _width, _height)
  \o Transpose_geometry(Append(p, "transpose1"), _width, _height)
  \o Scan_geometry(Append(p, "scanColumns"), _height, _width)
  \o (IF Load(W, Append(p, "transposed")) = Flag(TRUE) THEN <<>>
      ELSE Transpose_geometry(Append(p, "transpose2"), _height, _width))

\* global = cl::NDRange (height, width); local = cl::NDRange (lXdim, lYdim);
BoxFilterSAT_geometry(W, p, _width, _height) ==
     Dimensions(p, _width, _height)
  \o SAT_geometry(W, Append(p, "sat"), _width, _height)
  \o Store(Append(p, "global"), NDRange(_height, _width))
  \o Store(Append(p, "local"), NDRange(lXdim, lYdim))

\* global = cl::NDRange (width, height); local = cl::NDRange (lXdim, lYdim);
BoxFilter_geometry(p, _width, _height) ==
     Dimensions(p, _width, _height)
  \o Store(Append(p, "global"), NDRange(_width, _height))
  \o Store(Append(p, "local"), NDRange(lXdim, lYdim))

\* global = cl::NDRange (length / 4); of Mult and Pown, and
\* global = cl::NDRange (width * height / 4); of the guided filters.  These
\* kernels are enqueued with cl::NullRange as the local range.
Math_geometry(p, _width, _height) ==
     Dimensions(p, _width, _height)
  \o Store(Append(p, "global"), NDRange((_width * _height) \div 4, 1))
  \o Store(Append(p, "local"), NullRange)

GuidedFilter_I_EQ_P_geometry(W, p, _width, _height) ==
     Math_geometry(p, _width, _height)
  \o BoxFilterSAT_geometry(W, Append(p, "mean_p"), _width, _height)
  \o Math_geometry(Append(p, "squared"), _width, _height)
  \o BoxFilterSAT_geometry(W, Append(p, "mean_p2"), _width, _height)
  \o BoxFilterSAT_geometry(W, Append(p, "mean_a"), _width, _height)
  \o BoxFilterSAT_geometry(W, Append(p, "mean_b"), _width, _height)

GuidedFilter_I_NEQ_P_geometry(W, p, _width, _height) ==
     Math_geometry(p, _width, _height)
  \o BoxFilterSAT_geometry(W, Append(p, "mean_I"), _width, _height)
  \o BoxFilterSAT_geometry(W, Append(p, "mean_p"), _width, _height)
  \o Math_geometry(Append(p, "mult_II"), _width, _height)
  \o Math_geometry(Append(p, "mult_Ip"), _width, _height)
  \o BoxFilterSAT_geometry(W, Append(p, "corr_I"), _width, _height)
  \o BoxFilterSAT_geometry(W, Append(p, "corr_Ip"), _width, _height)
  \o BoxFilterSAT_geometry(W, Append(p, "mean_a"), _width, _height)
  \o BoxFilterSAT_geometry(W, Append(p, "mean_b"), _width, _height)

\* The offset, global range and local range of each enqueueNDRangeKernel
\* call of the run () functions.
Workspace(W, kernel) ==
  LET p == SubSeq(kernel, 1, Len(kernel) - 1)
      name == kernel[Len(kernel)]
      at(m) == Load(W, Append(p, m)).range
  IN CASE name = "kernelScan"
            -> [offset |-> NullRange.range, global |-> at("globalScan"),
                local |-> at("localScan")]
       [] name = "kernelSumsScan"
            -> [offset |-> NullRange.range, global |-> at("globalSumsScan"),
                local |-> at("localScan")]
       [] name = "kernelAddSums"
            -> [offset |-> at("offsetAddSums"), global |-> at("globalAddSums"),
                local |-> at("localAddSums")]
       [] OTHER
            -> [offset |-> NullRange.range, global |-> at("global"),
                local |-> at("local")]

\* What enqueueNDRangeKernel requires of a workspace: ranges that are not
\* empty and a local range that divides the global range, or cl::NullRange
\* to leave the local range to the implementation.
ValidWorkspace(ws) ==
  \A d \in {1, 2} :
    /\ ws.global[d] > 0
    /\ \/ ws.local = NullRange.range
       \/ ws.local[d] > 0 /\ ws.global[d] % ws.local[d] = 0

\* A float is the fraction n / d in lowest terms with d >= 0: 1 / 0 and
\* -1 / 0 are the infinities and 0 / 0 is NaN.  Rounding is left out.
RECURSIVE Gcd(_, _)
Gcd(a, b) == IF b = 0 THEN a ELSE Gcd(b, a % b)

Abs(i) == IF i < 0 THEN 0 - i ELSE i

Fraction(num, den) ==
  LET g == Gcd(Abs(num), Abs(den))
  IN IF g = 0 THEN Float(0, 0)
     ELSE IF den < 0 THEN Float((0 - num) \div g, (0 - den) \div g)
     ELSE Float(num \div g, den \div g)

NaN == Float(0, 0)
Zero == Float(0, 1)
One == Float(1, 1)
Infinity == Float(1, 0)

\* x + y, x - y, x * y and x / y
Add(x, y) ==
  IF x.d = 1 /\ y.d = 1 THEN Float(x.n + y.n, 1)
  ELSE IF x.d = 0 /\ y.d = 0 THEN (IF x = y THEN x ELSE NaN)
  ELSE LET g == Gcd(x.d, y.d)
       IN IF g = 0 THEN NaN
          ELSE Fraction(x.n * (y.d \div g) + y.n * (x.d \div g),
                        (x.d \div g) * y.d)

Neg(x) == Float(0 - x.n, x.d)
Sub(x, y) == Add(x, Neg(y))

Mul(x, y) ==
  IF x.d = 1 /\ y.d = 1 THEN Float(x.n * y.n, 1)
  ELSE LET a == Fraction(x.n, y.d)
           b == Fraction(y.n, x.d)
       IN Fraction(a.n * b.n, a.d * b.d)

Div(x, y) == Mul(x, Fraction(y.d, y.n))

\* Element i (from 0) of an array.
At(arr, i) == IF i >= 0 /\ i < Len(arr) THEN arr[i + 1] ELSE Zero

\* x * scaling
Scale(x, scaling) == Mul(x, scaling)

\* The scaled elements from .. to of an array, added up.
RECURSIVE Sum(_, _, _, _)
Sum(arr, from, to, scaling) ==
  IF from > to THEN Zero
  ELSE Add(Scale(At(arr, to), scaling), Sum(arr, from, to - 1, scaling))

\* inclusiveScan_f (in, out, data, sums, n, scaling) over workspace ws: each
\* work-item loads two float4 of its row, so that a work-group scans a
\* segment of 8 * local size elements of the n float4 of the row; when a row
\* spans several work-groups each writes the total of its segment to sums.
inclusiveScan(C, in, out, sums, n, scaling, ws) ==
  LET groups == ws.global[1] \div ws.local[1]
      segment == 8 * ws.local[1]
      width == 4 * n
      scan == [i \in 1..Len(C[out]) |->
                 LET row == (i - 1) \div width
                     col == (i - 1) % width
                     first == segment * (col \div segment)
                 IN IF row < ws.global[2] /\ col \div segment < groups
                    THEN Sum(C[in], row * width + first, row * width + col,
                             scaling)
                    ELSE C[out][i]]
      totals == [s \in 1..Len(C[sums]) |->
                   LET row == (s - 1) \div groups
                       first == segment * ((s - 1) % groups)
                       end == IF first + segment < width
                              THEN first + segment ELSE width
                   IN IF row < ws.global[2]
                      THEN Sum(C[in], row * width + first,
                               row * width + end - 1, scaling)
                      ELSE C[sums][s]]
  IN IF n = 0 THEN C
     ELSE IF groups > 1 THEN (out :> scan) @@ (sums :> totals) @@ C
     ELSE (out :> scan) @@ C

\* addGroupSums_f (sums, out, n) over workspace ws: work-item x of row y adds
\* to float4 x of the row the entry of its work-group in the row's sums.
addGroupSums(C, sums, out, n, ws) ==
  LET stride == ws.global[1] \div ws.local[1] + 1
      width == 4 * n
      added == [i \in 1..Len(C[out]) |->
                  LET row == (i - 1) \div width
                      item == ((i - 1) % width) \div 4
                      group == (item - ws.offset[1]) \div ws.local[1]
                  IN IF /\ row < ws.global[2]
                        /\ item >= ws.offset[1]
                        /\ item < ws.offset[1] + ws.global[1]
                     THEN Add(C[out][i], At(C[sums], row * stride + group))
                     ELSE C[out][i]]
  IN IF n = 0 THEN C ELSE (out :> added) @@ C

\* transpose (in, out, data) over workspace ws: work-item (x, y) moves the
\* 4x4 block (x, y) of in to the block (y, x) of out, transposed.
transpose(C, in, out, ws) ==
  LET width == 4 * ws.global[1]
      height == 4 * ws.global[2]
      moved == [j \in 1..Len(C[out]) |->
                  IF j <= width * height
                  THEN At(C[in], ((j - 1) % height) * width
                                 + (j - 1) \div height)
                  ELSE C[out][j]]
  IN (out :> moved) @@ C

Least(i, j) == IF i < j THEN i ELSE j
Greatest(i, j) == IF i > j THEN i ELSE j

\* The elements of the rows r0 .. r1 and columns c0 .. c1 of an array, added
\* up.
RECURSIVE WindowSum(_, _, _, _, _, _)
WindowSum(arr, width, r0, r1, c0, c1) ==
  IF r0 > r1 THEN Zero
  ELSE Add(Sum(arr, r1 * width + c0, r1 * width + c1, One),
           WindowSum(arr, width, r0, r1 - 1, c0, c1))

\* boxFilterSAT_Tr (sat, out, data, radius, scaling) over workspace ws:
\* work-item (x, y) computes the pixel of row x and column y from the
\* transposed summed area table: the sum over the pixel's window, clamped to
\* the image, is the signed difference of the table's entries at the
\* window's corners; it is divided by the number of pixels of the clamped
\* window and multiplied by scaling.
boxFilterSAT_Tr(C, sat, out, radius, scaling, ws) ==
  LET height == ws.global[1]
      width == ws.global[2]
      S(r, c) == IF r < 0 \/ c < 0 THEN Zero ELSE At(C[sat], c * height + r)
      mean == [i \in 1..Len(C[out]) |->
                 LET row == (i - 1) \div width
                     col == (i - 1) % width
                     r0 == Greatest(row - radius, 0) - 1
                     r1 == Least(row + radius, height - 1)
                     c0 == Greatest(col - radius, 0) - 1
                     c1 == Least(col + radius, width - 1)
                     sum == Add(Sub(S(r1, c1), S(r0, c1)),
                                Sub(S(r0, c0), S(r1, c0)))
                 IN IF row < height
                    THEN Mul(Div(sum, Float((r1 - r0) * (c1 - c0), 1)),
                             scaling)
                    ELSE C[out][i]]
  IN (out :> mean) @@ C

\* boxFilter (in, out, data, radius) over workspace ws: work-item (x, y)
\* computes the pixel of column x and row y as the mean of the samples of
\* its window that lie within the image.
boxFilter(C, in, out, radius, ws) ==
  LET width == ws.global[1]
      height == ws.global[2]
      mean == [i \in 1..Len(C[out]) |->
                 LET row == (i - 1) \div width
                     col == (i - 1) % width
                     r0 == Greatest(row - radius, 0)
                     r1 == Least(row + radius, height - 1)
                     c0 == Greatest(col - radius, 0)
                     c1 == Least(col + radius, width - 1)
                 IN IF row < height
                    THEN Div(WindowSum(C[in], width, r0, r1, c0, c1),
                             Float((r1 - r0 + 1) * (c1 - c0 + 1), 1))
                    ELSE C[out][i]]
  IN (out :> mean) @@ C

\* x raised to the power n
RECURSIVE Pow(_, _)
Pow(x, n) == IF n = 0 THEN One ELSE Mul(x, Pow(x, n - 1))

\* The kernels below handle one float4 per work-item: the elements a
\* workspace covers.
Covered(i, ws) == i <= 4 * ws.global[1]

\* mult (a, b, out): out = a * b, element by element.
mult(C, a, b, out, ws) ==
  (out :> [i \in 1..Len(C[out]) |->
             IF Covered(i, ws) THEN Mul(C[a][i], C[b][i]) ELSE C[out][i]])
    @@ C

\* pown_ (in, out, n): out = in ^ n, element by element.
pown_(C, in, out, n, ws) ==
  (out :> [i \in 1..Len(C[out]) |->
             IF Covered(i, ws) THEN Pow(C[in][i], n) ELSE C[out][i]])
    @@ C

\* gf_ab (mean_p, mean_p2, a, b, eps): var = mean_p2 - mean_p ^ 2,
\* a = var / (var + eps), b = (1 - a) * mean_p.
gf_ab(C, mean_p, mean_p2, a, b, eps, ws) ==
  LET var(i) == Sub(C[mean_p2][i], Mul(C[mean_p][i], C[mean_p][i]))
      a_(i) == Div(var(i), Add(var(i), eps))
  IN (a :> [i \in 1..Len(C[a]) |->
              IF Covered(i, ws) THEN a_(i) ELSE C[a][i]])
       @@ (b :> [i \in 1..Len(C[b]) |->
                   IF Covered(i, ws) THEN Mul(Sub(One, a_(i)), C[mean_p][i])
                   ELSE C[b][i]])
       @@ C

\* gf_var_Ip (corr_I, corr_Ip, mean_I, mean_p, var_I, cov_Ip):
\* var_I = corr_I - mean_I ^ 2, cov_Ip = corr_Ip - mean_I * mean_p.
gf_var_Ip(C, corr_I, corr_Ip, mean_I, mean_p, var_I, cov_Ip, ws) ==
  (var_I :> [i \in 1..Len(C[var_I]) |->
               IF Covered(i, ws)
               THEN Sub(C[corr_I][i], Mul(C[mean_I][i], C[mean_I][i]))
               ELSE C[var_I][i]])
    @@ (cov_Ip :> [i \in 1..Len(C[cov_Ip]) |->
                     IF Covered(i, ws)
                     THEN Sub(C[corr_Ip][i], Mul(C[mean_I][i], C[mean_p][i]))
                     ELSE C[cov_Ip][i]])
    @@ C

\* gf_ab_Ip (var_I, cov_Ip, mean_I, mean_p, a, b, eps):
\* a = cov_Ip / (var_I + eps), b = mean_p - a * mean_I.
gf_ab_Ip(C, var_I, cov_Ip, mean_I, mean_p, a, b, eps, ws) ==
  LET a_(i) == Div(C[cov_Ip][i], Add(C[var_I][i], eps))
  IN (a :> [i \in 1..Len(C[a]) |->
              IF Covered(i, ws) THEN a_(i) ELSE C[a][i]])
       @@ (b :> [i \in 1..Len(C[b]) |->
                   IF Covered(i, ws)
                   THEN Sub(C[mean_p][i], Mul(a_(i), C[mean_I][i]))
                   ELSE C[b][i]])
       @@ C

\* gf_q (in, mean_a, mean_b, out, zero_out, scaling):
\* out = scaling * (mean_a * in + mean_b), and zero where in is zero when
\* zero_out is set.
gf_q(C, in, mean_a, mean_b, out, zero_out, scaling, ws) ==
  (out :> [i \in 1..Len(C[out]) |->
             IF ~Covered(i, ws) THEN C[out][i]
             ELSE IF zero_out # 0 /\ C[in][i] = Zero THEN Zero
             ELSE Mul(scaling,
                      Add(Mul(C[mean_a][i], C[in][i]), C[mean_b][i]))])
    @@ C

\* The kernel function a cl::Kernel member was constructed with.
KernelName(W, kernel) ==
  LET name == kernel[Len(kernel)]
      owner == IF Len(kernel) > 1 THEN kernel[Len(kernel) - 1] ELSE "none"
      p == SubSeq(kernel, 1, Len(kernel) - 1)
  IN CASE name \in {"kernelScan", "kernelSumsScan"} -> "inclusiveScan_f"
       [] name = "kernelAddSums" -> "addGroupSums_f"
       [] name = "var" -> "gf_var_Ip"
       [] name = "ab" -> IF Append(p, "var") \in DOMAIN W.k THEN "gf_ab_Ip"
                         ELSE "gf_ab"
       [] name = "q" -> "gf_q"
       [] owner \in {"transpose1", "transpose2"} -> "transpose"
       [] owner = "squared" -> "pown_"
       [] owner \in {"mult_II", "mult_Ip"} -> "mult"
       [] Append(Append(p, "sat"), "transposed") \in DOMAIN W.m
            -> "boxFilterSAT_Tr"
       [] OTHER -> "boxFilter"

\* The device executes one enqueued kernel on memory C.  A rejected enqueue
\* changes nothing.
Launch(C, W, kernel) ==
  LET ws == Workspace(W, kernel)
      fn == KernelName(W, kernel)
      a(i) == Arg(W, kernel, i)
  IN IF ~ValidWorkspace(ws) THEN C
     ELSE CASE fn = "inclusiveScan_f"
                 -> inclusiveScan(C, a(0), a(1), a(3), a(4).int, a(5), ws)
            [] fn = "addGroupSums_f"
                 -> addGroupSums(C, a(0), a(1), a(2).int, ws)
            [] fn = "transpose" -> transpose(C, a(0), a(1), ws)
            [] fn = "boxFilterSAT_Tr"
                 -> boxFilterSAT_Tr(C, a(0), a(1), a(3).int, a(4), ws)
            [] fn = "boxFilter" -> boxFilter(C, a(0), a(1), a(3).int, ws)
            [] fn = "mult" -> mult(C, a(0), a(1), a(2), ws)
            [] fn = "pown_" -> pown_(C, a(0), a(1), a(2).int, ws)
            [] fn = "gf_ab" -> gf_ab(C, a(0), a(1), a(2), a(3), a(4), ws)
            [] fn = "gf_var_Ip"
                 -> gf_var_Ip(C, a(0), a(1), a(2), a(3), a(4), a(5), ws)
            [] fn = "gf_ab_Ip"
                 -> gf_ab_Ip(C, a(0), a(1), a(2), a(3), a(4), a(5), a(6), ws)
            [] fn = "gf_q"
                 -> gf_q(C, a(0), a(1), a(2), a(3), a(4).int, a(5), ws)

\* cpuScan (in, out, width, height): the iterations lo .. hi of its loops,
\* in order, on the elements of out written so far.
RECURSIVE cpuScanLoop(_, _, _, _, _)
cpuScanLoop(out, in, width, lo, hi) ==
  IF lo > hi THEN out
  ELSE IF lo = hi
  THEN Append(out, IF (lo - 1) % width = 0 THEN in[lo]
                   ELSE Add(out[lo - 1], in[lo]))
  ELSE LET half == cpuScanLoop(out, in, width, lo, (lo + hi) \div 2)
       IN IF half = <<>> THEN <<>>
          ELSE cpuScanLoop(half, in, width, (lo + hi) \div 2 + 1, hi)

cpuScan(in, width, height) == cpuScanLoop(<<>>, in, width, 1, width * height)

\* cpuBoxFilter (in, out, width, height, radius): what the iterations
\* lo .. hi of the loops over fRow and fCol, numbered in the order of the
\* loops, add to sum and n of the pixel at (row, col).  The sums are exact,
\* so the iterations are added up by halves.
RECURSIVE cpuBoxFilterLoop(_, _, _, _, _, _, _, _)
cpuBoxFilterLoop(in, width, height, radius, row, col, lo, hi) ==
  LET side == 2 * radius + 1
      iy == row + (lo \div side) - radius
      ix == col + (lo % side) - radius
      mid == (lo + hi) \div 2
      head == cpuBoxFilterLoop(in, width, height, radius, row, col, lo, mid)
      tail == cpuBoxFilterLoop(in, width, height, radius, row, col, mid + 1,
                               hi)
  IN IF lo < hi
     THEN [sum |-> Add(head.sum, tail.sum), n |-> head.n + tail.n]
     ELSE IF ix >= 0 /\ iy >= 0 /\ ix < width /\ iy < height
     THEN [sum |-> in[iy * width + ix + 1], n |-> 1]
     ELSE [sum |-> Zero, n |-> 0]

\* A box filter that divides by the size of the whole window.
cpuBoxFilter_window(in, width, height, radius) ==
  [i \in 1..(width * height) |->
     Div(cpuBoxFilterLoop(in, width, height, radius, (i - 1) \div width,
                          (i - 1) % width, 0,
                          (2 * radius + 1) * (2 * radius + 1) - 1).sum,
         Float((2 * radius + 1) * (2 * radius + 1), 1))]

cpuBoxFilter(in, width, height, radius) ==
  [i \in 1..(width * height) |->
     LET acc == cpuBoxFilterLoop(in, width, height, radius,
                                 (i - 1) \div width, (i - 1) % width, 0,
                                 (2 * radius + 1) * (2 * radius + 1) - 1)
     IN Div(acc.sum, Float(acc.n, 1))]

\* An array a loop has filled: its elements are computed once.
Filled(arr) == arr @@ <<>>

\* cpuPown (in, out, width, height, n)
cpuPown(in, width, height, n) ==
  [i \in 1..(width * height) |-> Pow(in[i], n)]

\* The var of cpuGuidedFilter: mean_p2 - mean_p * mean_p at every pixel.
cpuVariance(p, width, height, radius) ==
  LET mean_p == Filled(cpuBoxFilter(p, width, height, radius))
      p2 == Filled(cpuPown(p, width, height, 2))
      mean_p2 == Filled(cpuBoxFilter(p2, width, height, radius))
  IN [i \in 1..(width * height) |->
        Sub(mean_p2[i], Mul(mean_p[i], mean_p[i]))]

\* cpuGuidedFilter (p, q, width, height, radius, eps)
cpuGuidedFilter(p, width, height, radius, eps) ==
  LET pixels == width * height
      mean_p == Filled(cpuBoxFilter(p, width, height, radius))
      var == Filled(cpuVariance(p, width, height, radius))
      a == Filled([i \in 1..pixels |-> Div(var[i], Add(var[i], eps))])
      b == Filled([i \in 1..pixels |-> Mul(Sub(One, a[i]), mean_p[i])])
      mean_a == Filled(cpuBoxFilter(a, width, height, radius))
      mean_b == Filled(cpuBoxFilter(b, width, height, radius))
  IN [i \in 1..pixels |-> Add(Mul(mean_a[i], p[i]), mean_b[i])]

\* cpuTranspose (in, out, width, height)
cpuTranspose(in, width, height) ==
  [j \in 1..(width * height) |->
     in[((j - 1) % height) * width + (j - 1) \div height + 1]]

\* The stages whose data is followed.
DataKinds ==
  {"Scan", "Transpose", "SAT", "BoxFilterSAT", "BoxFilter",
   "GuidedFilter_I_EQ_P", "GuidedFilter_I_NEQ_P"}

transpose1 == <<"transpose1">>
transpose2 == <<"transpose2">>

\* scan.init (width, height) with no pre-scaling; transpose1.init (width,
\* height) and, on the output of transpose1, transpose2.init (height, width);
\* stage.init (...) of the other stages with the parameters P.
Data_init(k, W, P) ==
  CASE k = "Scan"
         ->    Scan_init(<<>>, P.width, P.height, Float(1, 1), "NONE")
            \o Scan_geometry(<<>>, P.width, P.height)
    [] k = "Transpose"
         ->    Transpose_init(transpose1, P.width, P.height, "NONE")
            \o Transpose_geometry(transpose1, P.width, P.height)
            \o Move(Append(transpose2, "dBufferIn"),
                    Append(transpose1, "dBufferOut"))
            \o Transpose_init(transpose2, P.height, P.width, "NONE")
            \o Transpose_geometry(transpose2, P.height, P.width)
    [] k = "SAT"
         ->    StageInit(k, W, P) \o SAT_geometry(W, <<>>, P.width, P.height)
    [] k = "BoxFilterSAT"
         ->    StageInit(k, W, P)
            \o BoxFilterSAT_geometry(W, <<>>, P.width, P.height)
    [] k = "BoxFilter"
         ->    StageInit(k, W, P) \o BoxFilter_geometry(<<>>, P.width, P.height)
    [] k = "GuidedFilter_I_EQ_P"
         ->    StageInit(k, W, P)
            \o GuidedFilter_I_EQ_P_geometry(W, <<>>, P.width, P.height)
    [] k = "GuidedFilter_I_NEQ_P"
         ->    StageInit(k, W, P)
            \o GuidedFilter_I_NEQ_P_geometry(W, <<>>, P.width, P.height)

\* box.run () of the direct box filter.
BoxFilter_run(p, qs, _events, _event) == Kernel_run(p, qs, _events, _event)

\* scan.run (); transpose1.run () and then transpose2.run (); stage.run ()
\* of the other stages.
Data_run(k, W) ==
  CASE k = "Scan" -> Scan_run(W, <<>>, <<0>>, NullPtr, NullPtr)
    [] k = "Transpose"
         ->    Kernel_run(transpose1, <<0>>, NullPtr, NullPtr)
            \o Kernel_run(transpose2, <<0>>, NullPtr, NullPtr)
    [] k = "SAT" -> SAT_run(W, <<>>, <<0>>, NullPtr, NullPtr)
    [] k = "BoxFilterSAT" -> BoxFilterSAT_run(W, <<>>, <<0>>, NullPtr, NullPtr)
    [] k = "BoxFilter" -> BoxFilter_run(<<>>, <<0>>, NullPtr, NullPtr)
    [] k = "GuidedFilter_I_EQ_P"
         -> GuidedFilter_I_EQ_P_run(W, <<>>, <<0, 1>>, NullPtr, NullPtr)
    [] k = "GuidedFilter_I_NEQ_P"
         -> GuidedFilter_I_NEQ_P_run(W, <<>>, <<0, 1>>, NullPtr, NullPtr)

\* The buffer write (mem) fills and the buffer holding the result.
DataIn(k, W, mem) ==
  CASE k = "Scan" -> Load(W, <<"dBufferIn">>)
    [] k = "Transpose" -> Load(W, Append(transpose1, "dBufferIn"))
    [] OTHER -> Load(W, get(k, W, mem))

DataOut(k, W) ==
  CASE k = "Scan" -> Load(W, <<"dBufferOut">>)
    [] k = "Transpose" -> Load(W, Append(transpose2, "dBufferOut"))
    [] OTHER -> Load(W, get(k, W, "D_OUT"))

\* The staging pointer write (mem) copies from.
HostPtr(mem) ==
  CASE mem = "D_IN_I" -> "hPtrInI"
    [] mem = "D_IN_P" -> "hPtrInP"
    [] OTHER -> "hPtrIn"

\* The device buffers of world W and the number of elements of each.
DeviceBuffers(W) ==
  {W.m[s] : s \in {t \in DOMAIN W.m : "buf" \in DOMAIN W.m[t]}}
    \ {NullBuffer}

SizeOf(W, b) ==
  LET s == CHOOSE t \in DOMAIN W.m : W.m[t] = b
      p == SubSeq(s, 1, Len(s) - 1)
  IN IF s[Len(s)] = "dBufferSums"
     THEN Load(W, Append(p, "bufferSumsSize")).int
     ELSE Load(W, Append(p, "bufferSize")).int

\* Dimensions the stages are initialised with: rows of one work-group and
\* of several, and dimensions init rejects.
DataDims(k) ==
  CASE k = "Scan" -> {4, 6, 16, 20, 48, 80, 256, 260} \X {1, 2}
    [] k = "Transpose" -> {4, 6, 8, 12, 32, 64} \X {0, 4, 8, 32, 64}
    [] k = "SAT" -> {0, 4, 8, 16, 48} \X {4, 8}
    [] k \in {"BoxFilterSAT", "BoxFilter"} -> {8, 16, 32} \X {16}
    [] OTHER -> {16} \X {16}

\* The regularization parameters given to the guided filters: a small one,
\* a large one and infinity, which is a float as any other.
Epsilons == {Float(1, 10), Float(10, 1), Infinity}

\* The parameters of init: i1 is the radius, f1 the pre-scaling of SAT and
\* of the box filter on it and the eps of the guided filters, i2 their
\* zero_out, f2 their boxScaling and f3 the outputScaling.
DataParams(k) ==
  {[width |-> d[1], height |-> d[2], staging |-> "IO", i1 |-> IntVal(r),
    i2 |-> IntVal(0), f1 |-> f, f2 |-> One, f3 |-> One] :
     d \in DataDims(k),
     r \in CASE k \in {"Scan", "Transpose", "SAT"} -> {1}
            [] k = "GuidedFilter_I_NEQ_P" -> {2}
            [] OTHER -> {1, 2},
     f \in CASE k \in {"Scan", "Transpose", "SAT", "BoxFilter"} -> {One}
            [] k = "BoxFilterSAT" -> {One, Float(1, 2)}
            [] k = "GuidedFilter_I_NEQ_P" -> {Float(1, 10), Infinity}
            [] OTHER -> Epsilons}

\* What a buffer holds when it is created: device memory is not cleared.
Fills == {0, 9}
FillsOf(k) == IF k \in {"Scan", "Transpose", "SAT"} THEN Fills ELSE {9}

\* The arrays the caller generates.
Patterns == {"ones", "squares", "index", "stripes", "halves"}

\* The guided filters are given a flat image and images of two levels:
\* columns that alternate between 1 and 3, and a step from 0 to 2 in the
\* middle of rows of 16 pixels.
PatternsOf(k, mem) ==
  CASE k = "GuidedFilter_I_EQ_P" -> {"ones", "stripes", "halves"}
    [] k = "GuidedFilter_I_NEQ_P" /\ mem = "D_IN_I" -> {"stripes", "halves"}
    [] k = "GuidedFilter_I_NEQ_P" /\ mem = "D_IN_P" -> {"ones", "stripes"}
    [] OTHER -> {"ones", "squares", "index"}

\* The caller writes every input once for a run, the guidance image first.
NextInput(k) ==
  CASE k # "GuidedFilter_I_NEQ_P" -> IF last.op = "write" THEN {} ELSE {"D_IN"}
    [] last.op # "write" -> {"D_IN_I"}
    [] last.arg = "D_IN_I" -> {"D_IN_P"}
    [] OTHER -> {}

Input(pattern, size) ==
  [i \in 1..size |->
     CASE pattern = "ones" -> One
       [] pattern = "squares" -> Float((i * i) % 7, 1)
       [] pattern = "stripes" -> Float(1 + 2 * (i % 2), 1)
       [] pattern = "halves" -> Float(2 * (((i - 1) % 16) \div 8), 1)
       [] OTHER -> Float(i, 1)]

\* The stages were constructed; init was not called yet.
DeviceInit ==
  /\ kind \in DataKinds
  /\ phase = "constructed"
  /\ \E tr \in BOOLEAN : /\ kind # "SAT" => tr
                         /\ world = Construct(kind, tr)
  /\ assigned = <<>>
  /\ calls = 0
  /\ last = [op |-> "construct", arg |-> Unset]
  /\ error = "none"
  /\ staging = "unset" /\ hPtr = <<>> /\ content = <<>> /\ queue = <<>>
  /\ cmds = <<>> /\ events = <<>> /\ tokens = <<>>
  /\ started = {} /\ done = {}

\* Every enqueued command was executed.
Idle == done = 1..Len(cmds)

\* init () of the stages; the buffers it creates hold fill.
Device_init(P, fill) ==
  /\ phase = "constructed"
  /\ \E W \in {Run(world, Data_init(kind, world, P))} :
       /\ world' = W
       /\ error' \in Logged(W.err)
       /\ phase' = IF Exited(W) THEN "exited" ELSE "ready"
       /\ content' = IF Exited(W) THEN content
                     ELSE [b \in DeviceBuffers(W) |->
                             [i \in 1..SizeOf(W, b) |-> Float(fill, 1)]]
  /\ last' = [op |-> "init", arg |-> P]
  /\ UNCHANGED <<kind, staging, hPtr, queue, assigned, calls>>
  /\ UNCHANGED schedOnly

\* The caller generates an array and writes it to an input buffer.
Device_write(mem, pattern) ==
  /\ phase = "ready"
  /\ Idle
  /\ Len(tokens) < MaxLaunches
  /\ mem \in NextInput(kind)
  /\ pattern \in PatternsOf(kind, mem)
  /\ \E A \in {Input(pattern, Len(content[DataIn(kind, world, mem)]))} :
       /\ hPtr' = (HostPtr(mem) :> A) @@ hPtr
       /\ content' = [content EXCEPT ![DataIn(kind, world, mem)] = A]
  /\ last' = [op |-> "write", arg |-> mem]
  /\ UNCHANGED <<kind, phase, staging, queue, error>>
  /\ UNCHANGED <<wiringOnly, schedOnly>>

\* run () of the stages, once every input was written.
Device_run ==
  /\ phase = "ready"
  /\ DOMAIN hPtr = {HostPtr(mem) : mem \in WriteMems(kind)}
  /\ NextInput(kind) \cap {"D_IN_P"} = {}
  /\ Idle
  /\ Len(tokens) < MaxLaunches
  /\ \E H \in {Execute(HostBefore, Data_run(kind, world))} :
       /\ cmds' = H.cmds
       /\ events' = H.ev
       /\ error' = H.err
  /\ tokens' = Append(tokens, [requested |-> FALSE, id |-> 0])
  /\ last' = [op |-> "run", arg |-> Unset]
  /\ UNCHANGED <<kind, phase, started, done>>
  /\ UNCHANGED <<stagingOnly, wiringOnly>>

\* The device executes the next command, in the order of the enqueues: an
\* order both in-order queues and every wait list allow.
Device_execute ==
  /\ ~Idle
  /\ \E i \in {Cardinality(done) + 1} :
       /\ content' = Launch(content, world, cmds[i].kernel)
       /\ error' = IF ValidWorkspace(Workspace(world, cmds[i].kernel))
                   THEN error ELSE "CL_INVALID_WORK_GROUP_SIZE"
       /\ started' = started \cup {i}
       /\ done' = done \cup {i}
       /\ last' = [op |-> "execute", arg |-> i]
  /\ UNCHANGED <<kind, phase, staging, hPtr, queue, cmds, events, tokens>>
  /\ UNCHANGED wiringOnly

DeviceNext ==
  \/ \E P \in DataParams(kind), fill \in FillsOf(kind) :
       Device_init(P, fill)
  \/ \E mem \in WriteMems(kind), pattern \in Patterns :
       Device_write(mem, pattern)
  \/ Device_run
  \/ Device_execute

(***************************************************************************)
(* Frames: the caller writes the input of a guided filter or of an RGB     *)
(* pipeline without blocking, calls run (), and does so again for the next *)
(* frame, while the device works through the two in-order queues.          *)
(***************************************************************************)
\* Most frames the caller hands to one filter.
MaxFrames == 2

\* The filters that take frames: they spread their kernels over two queues.
FrameKinds ==
  {"GuidedFilter_I_EQ_P", "GuidedFilter_I_NEQ_P", "GuidedFilterRGB_SEPARATED",
   "GuidedFilterRGB_INTERLEAVED_FLOAT"}

\* init with the default staging.
FrameParams ==
  {P \in InitParams : P.staging = "IO" /\ P.i1 = IntVal(1) /\ P.width = 48}

\* The filter was constructed and initialised; nothing was enqueued yet.
FrameInit ==
  /\ kind \in FrameKinds
  /\ phase = "ready"
  /\ \E P \in FrameParams :
       world = Run(Construct(kind, TRUE),
                   StageInit(kind, Construct(kind, TRUE), P))
  /\ world.err = "none"
  /\ assigned = <<>>
  /\ calls = 0
  /\ last = [op |-> "init", arg |-> Unset]
  /\ error = "none"
  /\ staging = "unset" /\ hPtr = <<>> /\ content = <<>> /\ queue = <<>>
  /\ cmds = <<>> /\ events = <<>> /\ tokens = <<>>
  /\ started = {} /\ done = {}

\* The transfers of frame f enqueued so far, by the member they write.
Written(f) ==
  {cmds[i].kernel[2] :
     i \in {j \in 1..Len(cmds) :
              cmds[j].run = f /\ cmds[j].kernel[1] = "enqueueWriteBuffer"}}

\* stage.write (mem) with the default arguments, for an input of the next
\* frame: when the staging policy covers the input,
\* queue0.enqueueWriteBuffer (dBufferIn.., CL_FALSE, ...) with no wait list
\* and no event.
enqueueWriteBuffer(mem) ==
  /\ phase = "ready"
  /\ Len(tokens) < MaxFrames
  /\ MemberOf(mem) \notin Written(Len(tokens) + 1)
  /\ Load(world, <<"staging">>).staging \in {"I", "IO"}
  /\ cmds' = Append(cmds, [kernel |-> <<"enqueueWriteBuffer", MemberOf(mem)>>,
                           queue |-> 0, wait |-> {},
                           run |-> Len(tokens) + 1])
  /\ last' = [op |-> "write", arg |-> mem]
  /\ UNCHANGED <<kind, phase, error, events, tokens, started, done>>
  /\ UNCHANGED <<stagingOnly, wiringOnly>>

\* stage.run (nullptr, &event) on the next frame, its inputs written.
frame(_event) ==
  /\ Len(tokens) < MaxFrames
  /\ Written(Len(tokens) + 1) = {MemberOf(mem) : mem \in WriteMems(kind)}
  /\ Enqueues(_event)

\* The device executes command i from start to completion: the queues are
\* in-order, and the events of the wait list are complete.
Perform(i) ==
  /\ i \notin started
  /\ Earlier(i) \subseteq done
  /\ cmds[i].wait \subseteq done
  /\ started' = started \cup {i}
  /\ done' = done \cup {i}
  /\ UNCHANGED <<kind, phase, last, error, cmds, events, tokens>>
  /\ UNCHANGED <<stagingOnly, wiringOnly>>

FrameNext ==
  \/ \E mem \in WriteMems(kind) : enqueueWriteBuffer(mem)
  \/ frame(CallerEvent)
  \/ \E i \in 1..Len(cmds) : Perform(i)

(***************************************************************************)
(* Reads: the caller calls run () and reads an output back with a blocking *)
(* read, while the device works through the in-order queues.               *)
(***************************************************************************)
\* Most runs the caller reads the output of.
MaxFetches == 1

\* The stages whose outputs are read back: those that enqueue more than one
\* kernel in a run.
FetchKinds ==
  FrameKinds \cup {"GuidedFilterDepth", "BoxFilterSAT", "Scan"}

\* The stage was constructed and initialised with the default staging;
\* nothing was enqueued yet.
FetchInit ==
  /\ kind \in FetchKinds
  /\ phase = "ready"
  /\ \E P \in FrameParams :
       world = Run(Construct(kind, TRUE),
                   StageInit(kind, Construct(kind, TRUE), P))
  /\ world.err = "none"
  /\ assigned = <<>>
  /\ calls = 0
  /\ last = [op |-> "init", arg |-> Unset]
  /\ error = "none"
  /\ staging = "unset" /\ hPtr = <<>> /\ content = <<>> /\ queue = <<>>
  /\ cmds = <<>> /\ events = <<>> /\ tokens = <<>>
  /\ started = {} /\ done = {}

\* The outputs of run r read back so far, by their memory names.
Fetched(r) ==
  {cmds[i].kernel[2] :
     i \in {j \in 1..Len(cmds) :
              cmds[j].run = r /\ cmds[j].kernel[1] = "enqueueReadBuffer"}}

\* The caller is inside a blocking read: the copy it enqueued is not
\* complete.
Blocked ==
  \E i \in 1..Len(cmds) :
    cmds[i].kernel[1] = "enqueueReadBuffer" /\ i \notin done

\* stage.run () with the default arguments: no wait list and no event.
fetchRun ==
  /\ ~Blocked
  /\ Len(tokens) < MaxFetches
  /\ Enqueues(NullPtr)

\* A blocking read that enqueues its copy on the second queue.
enqueueReadBuffer_queue1(mem) ==
  /\ phase = "ready"
  /\ tokens # <<>>
  /\ ~Blocked
  /\ Fetched(Len(tokens)) = {}
  /\ Load(world, <<"staging">>).staging \in {"O", "IO"}
  /\ cmds' = Append(cmds, [kernel |-> <<"enqueueReadBuffer", DevOf(mem)>>,
                           queue |-> 1, wait |-> {}, run |-> Len(tokens)])
  /\ last' = [op |-> "read", arg |-> mem]
  /\ UNCHANGED <<kind, phase, error, events, tokens, started, done>>
  /\ UNCHANGED <<stagingOnly, wiringOnly>>

\* stage.read (mem) with the default arguments, after run (): when the
\* staging policy covers the output, queue0.enqueueReadBuffer (dBufferOut..,
\* CL_TRUE, ...) with no wait list and no event.  The call returns when the
\* copy is complete.
enqueueReadBuffer(mem) ==
  /\ phase = "ready"
  /\ tokens # <<>>
  /\ ~Blocked
  /\ Fetched(Len(tokens)) = {}
  /\ Load(world, <<"staging">>).staging \in {"O", "IO"}
  /\ cmds' = Append(cmds, [kernel |-> <<"enqueueReadBuffer", DevOf(mem)>>,
                           queue |-> 0, wait |-> {}, run |-> Len(tokens)])
  /\ last' = [op |-> "read", arg |-> mem]
  /\ UNCHANGED <<kind, phase, error, events, tokens, started, done>>
  /\ UNCHANGED <<stagingOnly, wiringOnly>>

FetchNext ==
  \/ fetchRun
  \/ \E mem \in ReadMems(kind) : enqueueReadBuffer(mem)
  \/ \E i \in 1..Len(cmds) : Perform(i)

(***************************************************************************)
(* Specifications                                                          *)
(***************************************************************************)
vars == <<kind, phase, staging, hPtr, content, queue, last, error, world,
          assigned, calls, cmds, events, tokens, started, done>>

SpecStaging ==
  /\ StagingInit
  /\ [][StagingNext]_vars

SpecWiring ==
  /\ WiringInit
  /\ [][WiringNext]_vars

SpecSched ==
  /\ SchedInit
  /\ [][SchedNext]_vars

SpecHost ==
  /\ HostInit
  /\ [][HostNext]_vars

SpecConfig ==
  /\ ConfigInit
  /\ [][ConfigNext]_vars

SpecDevice ==
  /\ DeviceInit
  /\ [][DeviceNext]_vars

SpecFetch ==
  FetchInit /\ [][FetchNext]_vars

SpecFrame ==
  /\ FrameInit
  /\ [][FrameNext]_vars

(***************************************************************************)
(* Wiring claims                                                           *)
(***************************************************************************)
\* The memory object stage.get (mem) refers to in world W.
Got(W, mem) == Load(W, get(kind, W, mem))

\* C3: a memory object the caller assigned to get (mem) before init is
\* still what get (mem) refers to after init, for every stage and every
\* memory name.
C3_AssignedBuffersSurviveInit ==
  phase = "ready" =>
    \A mem \in DOMAIN assigned : Got(world, mem) = assigned[mem]

GuidedFilterSetters ==
  {"setRadius", "setEps", "setBoxScaling", "setOutputScaling", "setZeroing"}

\* The members of world W that hold a memory object.
BufferSlots(W) == {slot \in DOMAIN W.m : "buf" \in DOMAIN W.m[slot]}

\* C4: on an initialised guided filter (self-guided or cross-guided) a
\* call of setRadius, setEps, setBoxScaling, setOutputScaling or setZeroing
\* leaves every memory object returned by get, and every buffer held by the
\* pipeline, the one it was before the call.
C4_SettersKeepBuffers ==
  [][(kind \in GuidedFilters /\ phase = "ready"
      /\ last'.op \in GuidedFilterSetters)
     => /\ \A mem \in Memory(kind) : Got(world', mem) = Got(world, mem)
        /\ BufferSlots(world') = BufferSlots(world)
        /\ \A slot \in BufferSlots(world) : world'.m[slot] = world.m[slot]]_vars

\* A setter was called on an initialised cross-guided filter that holds
\* its buffers.
C4_Witness ==
  /\ kind = "GuidedFilter_I_NEQ_P" /\ phase = "ready"
  /\ last.op \in GuidedFilterSetters
  /\ \A mem \in DevOut("GuidedFilter_I_NEQ_P") : Got(world, mem) # NullBuffer

\* Index at which init binds each parameter that has a setter.
Depth_scalingArg == 2
DepthTo3D_fArg == 2
DepthTo3D_scalingArg == 3
RGBDTo8D_fArg == 7
RGBDTo8D_scalingArg == 8
RGBDTo8D_rgbNormArg == 9
SplitPC8D_offsetArg == 3
Pown_nArg == 2
Scan_scalingArg == 5
BoxFilterSAT_radiusArg == 3

\* Kernel argument i of the stage's kernel holds the value of member name.
Bound(kernel, i, name) == Arg(world, <<kernel>>, i) = Load(world, <<name>>)

\* C5: after init and any setter calls, the kernel argument at the index
\* where init bound a parameter equals the value the matching getter
\* returns.
C5_SetterPatchesInitIndex ==
  phase = "ready" =>
    /\ kind = "Depth" => Bound("kernel", Depth_scalingArg, "scaling")
    /\ kind = "DepthTo3D" => /\ Bound("kernel", DepthTo3D_fArg, "f")
                             /\ Bound("kernel", DepthTo3D_scalingArg, "scaling")
    /\ kind = "RGBDTo8D" => /\ Bound("kernel", RGBDTo8D_fArg, "f")
                            /\ Bound("kernel", RGBDTo8D_scalingArg, "scaling")
                            /\ Bound("kernel", RGBDTo8D_rgbNormArg, "rgbNorm")
    /\ kind = "SplitPC8D" => Bound("kernel", SplitPC8D_offsetArg, "offset")
    /\ kind = "Pown" => Bound("kernel", Pown_nArg, "n")
    /\ kind = "Scan" => Bound("kernelScan", Scan_scalingArg, "scaling")
    /\ kind = "BoxFilterSAT" => Bound("kernel", BoxFilterSAT_radiusArg, "radius")

\* Index of the output scaling among the arguments of the kernel gf_q.
q_outputScalingArg == 5

\* C6: after setOutputScaling (s) on the initialised self-guided filter the
\* output-scaling argument of the kernel q equals s.
C6_OutputScalingReachesQ ==
  (kind = "GuidedFilter_I_EQ_P" /\ last.op = "setOutputScaling")
    => Arg(world, <<"q">>, q_outputScalingArg) = last.arg

\* The kernels of the box filters in world W: a kernel whose owner has a
\* summed-area table of its own.
BoxFilterKernels(W) ==
  {K \in DOMAIN W.k :
     /\ K[Len(K)] = "kernel"
     /\ (SubSeq(K, 1, Len(K) - 1) \o <<"sat", "scanRows", "kernelScan">>)
          \in DOMAIN W.k}

RadiusPipelines ==
  GuidedFilters \cup {"GuidedFilterRGB_SEPARATED",
                      "GuidedFilterRGB_INTERLEAVED_FLOAT", "GuidedFilterDepth"}

\* C7: after setRadius (r) on a guided filter or an RGB or Depth composite,
\* the radius argument of every internal box filter equals r.
C7_RadiusReachesEveryBoxFilter ==
  (kind \in RadiusPipelines /\ last.op = "setRadius")
    => \A K \in BoxFilterKernels(world) :
         Arg(world, K, BoxFilterSAT_radiusArg) = last.arg

\* setRadius was called on a cross-guided filter with its six box filters,
\* with a radius other than the one init bound.
C7_Witness ==
  /\ kind = "GuidedFilter_I_NEQ_P" /\ last.op = "setRadius"
  /\ Cardinality(BoxFilterKernels(world)) = 6
  /\ last.arg = IntVal(1)

\* Index of the de-scale among the arguments of the kernel boxFilterSAT_Tr.
BoxFilterSAT_scalingArg == 4

\* The box filters of the self-guided filter.
SelfGuidedBoxFilters == {"mean_p", "mean_p2", "mean_a", "mean_b"}

\* C31: after init of the self-guided filter and any setter calls, the
\* pre-scale bound to the row scan of each of its four box filters, and
\* the scaling each box filter keeps, equal the value getBoxScaling
\* returns.
C31_BoxScalingSurvivesSetters ==
  (kind = "GuidedFilter_I_EQ_P" /\ phase = "ready") =>
    \A box \in SelfGuidedBoxFilters :
      /\ Arg(world, <<box, "sat", "scanRows", "kernelScan">>, Scan_scalingArg)
           = Load(world, <<"boxScaling">>)
      /\ Load(world, <<box, "scaling">>) = Load(world, <<"boxScaling">>)

\* The scaling factors bound along the path of the box filter whose kernel
\* is K: to the row scan, to the scan of its group sums when it has one,
\* to the column scan, and the de-scale of the box kernel.
ScalingPath(W, K) ==
  LET p == SubSeq(K, 1, Len(K) - 1)
      sums == p \o <<"sat", "scanRows", "kernelSumsScan">>
  IN [rows |-> Arg(W, p \o <<"sat", "scanRows", "kernelScan">>,
                   Scan_scalingArg),
      sums |-> IF sums \in DOMAIN W.k THEN Arg(W, sums, Scan_scalingArg)
               ELSE One,
      columns |-> Arg(W, p \o <<"sat", "scanColumns", "kernelScan">>,
                      Scan_scalingArg),
      box |-> Arg(W, K, BoxFilterSAT_scalingArg),
      s |-> Load(W, Append(p, "scaling"))]

\* C32: after init and any setter calls, every box filter on a summed
\* area table has its scaling s bound to the row scan and 1 to the scan
\* of the group sums and to the column scan, and 1 / s to its box kernel,
\* so that the factors along the path multiply to 1.
C32_ScalingAppliedOnceAndUndone ==
  phase = "ready" =>
    \A K \in BoxFilterKernels(world) :
      LET path == ScalingPath(world, K)
      IN /\ path.rows = path.s
         /\ path.sums = One /\ path.columns = One
         /\ path.box = Recip(path.s)
         /\ Mul(Mul(Mul(path.rows, path.sums), path.columns), path.box) = One

\* setScaling (2.f) was called on an initialised BoxFilterSAT whose row
\* scan needs a scan of group sums: the row scan holds 2 and the box
\* kernel 1 / 2.
C32_Witness ==
  /\ kind = "BoxFilterSAT" /\ phase = "ready"
  /\ last = [op |-> "setScaling", arg |-> Float(2, 1)]
  /\ <<"sat", "scanRows", "kernelSumsScan">> \in DOMAIN world.k
  /\ ScalingPath(world, <<"kernel">>).rows = Float(2, 1)
  /\ ScalingPath(world, <<"kernel">>).box = Float(1, 2)

\* Indices of the local tile and of the radius among the arguments of the
\* kernel boxFilter.
BoxFilter_tileArg == 2
BoxFilter_radiusArg == 3

\* C33: after init of the direct box filter and any setRadius calls, the
\* local memory bound as the tile of the kernel has room for
\* (lXdim + 2 * radius) x (lYdim + 2 * radius) floats, radius being the
\* value bound as the kernel's radius argument.
C33_TileHoldsWindow ==
  (kind = "BoxFilter" /\ phase = "ready") =>
    LET radius == Arg(world, <<"kernel">>, BoxFilter_radiusArg).int
    IN Arg(world, <<"kernel">>, BoxFilter_tileArg).local
         >= (lXdim + 2 * radius) * (lYdim + 2 * radius) * 4


(***************************************************************************)
(* Scheduling claims                                                       *)
(***************************************************************************)
\* The inner stage or own kernel of the guided filter that command i
\* belongs to.
Part(i) == cmds[i].kernel[1]

\* The commands of the same run that belong to a part whose output the part
\* of command i consumes, deps being the pairs <<consumer, producer>>.
Producers(i, deps) ==
  {j \in 1..Len(cmds) :
     cmds[j].run = cmds[i].run /\ <<Part(i), Part(j)>> \in deps}

\* No command has started before the producers of its inputs completed.
StartsAfterProducers(deps) ==
  \A i \in started : Producers(i, deps) \subseteq done

\* A producer on the other queue is covered by a wait-list entry of the
\* consumer's part: an event of a command enqueued on the producer's queue
\* at or after the producer.
CarriedByWaitList(deps) ==
  \A i \in 1..Len(cmds) : \A j \in Producers(i, deps) :
    cmds[j].queue # cmds[i].queue =>
      \E c \in 1..i : /\ Part(c) = Part(i) /\ cmds[c].run = cmds[i].run
                      /\ \E w \in cmds[c].wait :
                           cmds[w].queue = cmds[j].queue /\ w >= j

SelfGuidedDeps ==
  {<<"mean_p2", "squared">>, <<"ab", "mean_p">>, <<"ab", "mean_p2">>,
   <<"mean_a", "ab">>, <<"mean_b", "ab">>, <<"q", "mean_a">>,
   <<"q", "mean_b">>}

\* C8: in every run of the self-guided filter each kernel starts only after
\* the kernels of that run producing its inputs have completed (ab after
\* mean_p and mean_p2, mean_a and mean_b after ab, q after mean_a and
\* mean_b), and each dependency across the two queues is carried by a
\* wait-list entry.
C8_SelfGuidedSchedule ==
  kind = "GuidedFilter_I_EQ_P" =>
    StartsAfterProducers(SelfGuidedDeps) /\ CarriedByWaitList(SelfGuidedDeps)

\* The blend kernel q of a self-guided run has started while the run's
\* kernels were spread over both queues.
C8_Witness ==
  /\ kind = "GuidedFilter_I_EQ_P"
  /\ \E i \in started : Part(i) = "q"
  /\ \E j \in done : Part(j) = "mean_p2" /\ cmds[j].queue = 1

CrossGuidedDeps ==
  {<<"corr_I", "mult_II">>, <<"corr_Ip", "mult_Ip">>, <<"var", "mean_I">>,
   <<"var", "mean_p">>, <<"var", "corr_I">>, <<"var", "corr_Ip">>,
   <<"ab", "var">>, <<"mean_a", "ab">>, <<"mean_b", "ab">>,
   <<"q", "mean_a">>, <<"q", "mean_b">>}

\* C9: in every run of the cross-guided filter each kernel starts only
\* after the producers of its inputs in that run have completed: corr_I
\* after mult_II, corr_Ip after mult_Ip, var after mean_I, mean_p, corr_I and
\* corr_Ip, ab after var, mean_a and mean_b after ab, q after mean_a and
\* mean_b.
C9_CrossGuidedSchedule ==
  kind = "GuidedFilter_I_NEQ_P" => StartsAfterProducers(CrossGuidedDeps)

\* The variance kernel of a cross-guided run has started, its producers
\* mean_p and corr_Ip having run on the other queue.
C9_Witness ==
  /\ kind = "GuidedFilter_I_NEQ_P"
  /\ \E i \in started : Part(i) = "var" /\ cmds[i].queue = 0
  /\ \E j \in done : Part(j) = "corr_Ip" /\ cmds[j].queue = 1

\* C10: a run called with a non-null event pointer assigns an event to it,
\* and once that event is complete every kernel the run enqueued is
\* complete.
C10_EventCoversRun ==
  \A r \in 1..Len(tokens) :
    tokens[r].requested =>
      /\ tokens[r].id # 0
      /\ tokens[r].id \in done =>
           \A i \in 1..Len(cmds) : cmds[i].run = r => i \in done

(***************************************************************************)
(* Dataflow claims                                                         *)
(***************************************************************************)
IsBuffer(v) == "buf" \in DOMAIN v /\ v # NullBuffer

\* The kernels of box filter p form a chain from buffer in to buffer out:
\* row scan, transpose, column scan, window kernel.
BoxFilters(W, p, in, out) ==
  /\ Arg(W, p \o <<"sat", "scanRows", "kernelScan">>, 0) = in
  /\ Arg(W, p \o <<"sat", "scanRows", "kernelScan">>, 1)
       = Arg(W, p \o <<"sat", "transpose1", "kernel">>, 0)
  /\ Arg(W, p \o <<"sat", "transpose1", "kernel">>, 1)
       = Arg(W, p \o <<"sat", "scanColumns", "kernelScan">>, 0)
  /\ Arg(W, p \o <<"sat", "scanColumns", "kernelScan">>, 1)
       = Arg(W, Append(p, "kernel"), 0)
  /\ Arg(W, Append(p, "kernel"), 1) = out

\* The buffers the kernels ab and q of the self-guided filter are bound to,
\* with p, p squared and the output: p, out, p2, mean_p, mean_p2, a, b,
\* mean_a, mean_b.
SelfGuidedBuffers(W) ==
  <<Got(W, "D_IN"), Got(W, "D_OUT"), Arg(W, <<"squared", "kernel">>, 1),
    Arg(W, <<"ab">>, 0), Arg(W, <<"ab">>, 1), Arg(W, <<"ab">>, 2),
    Arg(W, <<"ab">>, 3), Arg(W, <<"q">>, 1), Arg(W, <<"q">>, 2)>>

C14_CrossGuidedBlendReadsI ==
  (kind = "GuidedFilter_I_NEQ_P" /\ phase = "ready") =>
    /\ IsBuffer(Arg(world, <<"q">>, 0))
    /\ Arg(world, <<"q">>, 0) = Got(world, "D_IN_I")
    /\ Arg(world, <<"q">>, 0) # Got(world, "D_IN_P")
    /\ Arg(world, <<"q">>, 3) = Got(world, "D_OUT")
    /\ BoxFilters(world, <<"mean_a">>, Arg(world, <<"ab">>, 4),
                  Arg(world, <<"q">>, 1))
    /\ BoxFilters(world, <<"mean_b">>, Arg(world, <<"ab">>, 5),
                  Arg(world, <<"q">>, 2))
    /\ Arg(world, <<"ab">>, 4) # Arg(world, <<"ab">>, 5)
    /\ Arg(world, <<"ab">>, 0) = Arg(world, <<"var">>, 4)
    /\ Arg(world, <<"ab">>, 0) = Got(world, "D_VAR_I")
    /\ Arg(world, <<"ab">>, 1) = Arg(world, <<"var">>, 5)
    /\ Arg(world, <<"ab">>, 1) = Got(world, "D_COV_IP")
    /\ IsBuffer(Arg(world, <<"ab">>, 0)) /\ IsBuffer(Arg(world, <<"ab">>, 1))
    /\ Arg(world, <<"ab">>, 0) # Arg(world, <<"ab">>, 1)
    /\ BoxFilters(world, <<"mean_I">>, Got(world, "D_IN_I"),
                  Arg(world, <<"ab">>, 2))
    /\ BoxFilters(world, <<"mean_p">>, Got(world, "D_IN_P"),
                  Arg(world, <<"ab">>, 3))

C14_Witness ==
  /\ kind = "GuidedFilter_I_NEQ_P" /\ phase = "ready"
  /\ "D_IN_P" \in DOMAIN assigned
  /\ Arg(world, <<"q">>, 0) = NewBuffer(<<"dBufferInI">>)

ChannelWired(gf, in, out) ==
  /\ IsBuffer(in) /\ IsBuffer(out) /\ in # out
  /\ Load(world, Append(gf, "dBufferIn")) = in
  /\ Arg(world, gf \o <<"mean_p", "sat", "scanRows", "kernelScan">>, 0) = in
  /\ Arg(world, gf \o <<"squared", "kernel">>, 0) = in
  /\ Arg(world, Append(gf, "q"), 0) = in
  /\ Load(world, Append(gf, "dBufferOut")) = out
  /\ Arg(world, Append(gf, "q"), 3) = out

\* The filter of each colour plane and its place among the arguments of the
\* splitter (after the input) and of the combiner.
Planes == {<<"gfR", 1, "D_OUT_R">>, <<"gfG", 2, "D_OUT_G">>,
           <<"gfB", 3, "D_OUT_B">>}

\* C38: after init of an RGB or depth pipeline, every inner guided filter
\* reads the very memory object the preceding stage writes (the splitter a
\* colour plane, the depth kernel the promoted depth) and writes the very
\* memory object the pipeline exposes as its output or the combiner reads.
C38_StagesShareMemoryObjects ==
  phase = "ready" =>
    /\ kind = "GuidedFilterRGB_SEPARATED" =>
         \A c \in Planes :
           ChannelWired(<<c[1]>>, Arg(world, <<"sRGB", "kernel">>, c[2]),
                        Got(world, c[3]))
    /\ kind = "GuidedFilterRGB_INTERLEAVED_FLOAT" =>
         /\ \A c \in Planes :
              ChannelWired(<<c[1]>>, Arg(world, <<"sRGB", "kernel">>, c[2]),
                           Arg(world, <<"cRGB", "kernel">>, c[2] - 1))
         /\ Arg(world, <<"cRGB", "kernel">>, 3) = Got(world, "D_OUT")
    /\ kind = "GuidedFilterDepth" =>
         ChannelWired(<<"gf">>, Arg(world, <<"depth", "kernel">>, 1),
                      Got(world, "D_OUT"))

\* The interleaved pipeline was initialised on an output buffer of the
\* caller's: the combiner reads what the filter of the red plane writes.
C38_Witness ==
  /\ kind = "GuidedFilterRGB_INTERLEAVED_FLOAT" /\ phase = "ready"
  /\ last.op = "init"
  /\ "D_OUT" \in DOMAIN assigned
  /\ Got(world, "D_OUT") = assigned["D_OUT"]
  /\ IsBuffer(Arg(world, <<"gfR", "q">>, 3))
  /\ Arg(world, <<"cRGB", "kernel">>, 0) = Arg(world, <<"gfR", "q">>, 3)
  /\ Arg(world, <<"gfR", "q">>, 0) = Arg(world, <<"sRGB", "kernel">>, 1)

\* C30: in the depth pipeline, after init and after setDScaling (d), the
\* scaling argument of the depth kernel equals dScaling and the output
\* scaling argument of the inner filter's kernel q equals 1 / dScaling.
C30_DepthScalingReachesKernels ==
  (kind = "GuidedFilterDepth" /\ phase = "ready") =>
    /\ Arg(world, <<"depth", "kernel">>, Depth_scalingArg)
         = Load(world, <<"dScaling">>)
    /\ Arg(world, <<"gf", "q">>, q_outputScalingArg)
         = Recip(Load(world, <<"dScaling">>))
\* The place of an inner stage of SAT in the order of the algorithm.
SAT_place(part) ==
  CASE part = "scanRows" -> 1 [] part = "transpose1" -> 2
    [] part = "scanColumns" -> 3 [] part = "transpose2" -> 4 [] OTHER -> 0

\* The commands run number r enqueued.
CommandsOf(r) == {i \in 1..Len(cmds) : cmds[i].run = r}

\* C34: every run of SAT enqueues, all on one queue, the kernels of the
\* row scan first, then the transpose, then the kernels of the column
\* scan, and after them the second transpose exactly when the SAT was
\* constructed with transposed = false.
C34_SATRunOrder ==
  kind = "SAT" =>
    \A r \in 1..Len(tokens) :
      /\ \A i, j \in CommandsOf(r) :
           /\ cmds[i].queue = cmds[j].queue
           /\ i < j => SAT_place(Part(i)) <= SAT_place(Part(j))
      /\ {Part(i) : i \in CommandsOf(r)}
           = {"scanRows", "transpose1", "scanColumns"}
               \cup (IF Load(world, <<"transposed">>) = Flag(TRUE) THEN {}
                     ELSE {"transpose2"})
      /\ Cardinality({i \in CommandsOf(r) : Part(i) = "transpose1"}) = 1
      /\ Cardinality({i \in CommandsOf(r) : Part(i) = "transpose2"}) <= 1

\* A SAT constructed for non-transposed output ran on rows of several
\* work-groups: the row scan enqueued three kernels and the last command
\* is the second transpose.
C34_Witness ==
  /\ kind = "SAT" /\ Len(tokens) = 1
  /\ Load(world, <<"transposed">>) = Flag(FALSE)
  /\ Cardinality({i \in CommandsOf(1) : Part(i) = "scanRows"}) = 3
  /\ Part(Len(cmds)) = "transpose2"
  /\ Part(Len(cmds) - 1) = "scanColumns"


(***************************************************************************)
(* Configuration claims                                                    *)
(***************************************************************************)
\* The divisibility each stage requires of its dimensions.
Divisible(k, P) ==
  CASE k \in {"SeparateRGB_FLOAT_FLOAT", "SeparateRGB_UCHAR_FLOAT",
              "CombineRGB_FLOAT_FLOAT", "CombineRGB_FLOAT_UCHAR", "RGBDTo8D"}
         -> (P.width * P.height) % 3 = 0
    [] k = "Scan" -> P.width % 4 = 0
    [] k \in {"Transpose", "SAT"} -> P.width % 4 = 0 /\ P.height % 4 = 0
    [] k \in RGBPipelines
         -> /\ P.width % lYdim = 0 /\ P.height % lXdim = 0
            /\ (P.width * P.height) % 3 = 0
    [] k \in BoxFilterOwners \ RGBPipelines
         -> P.width % lYdim = 0 /\ P.height % lXdim = 0
    [] OTHER -> (P.width * P.height) % 4 = 0

\* C16: for every stage, an init call with a zero width or height, or with
\* dimensions that break the stage's divisibility requirement, logs an error
\* and terminates the process inside init; it does not return normally.
C16_BadDimensionsExitInInit ==
  (/\ last.op = "init"
   /\ \/ last.arg.width = 0 \/ last.arg.height = 0
      \/ ~Divisible(kind, last.arg))
    => (phase = "exited" /\ error # "none")

CapabilityErrors ==
  {"The maximum work-group dimensions are not enough (16x16 work-groups are required) on this device",
   "The maximum work-group size is not enough (256 work-items per work-group are required) on this device"}

\* C17: constructing a BoxFilterSAT or a BoxFilter on a device whose maximum
\* work-item size is below 16 in one of the first two dimensions, or whose
\* maximum work-group size is below 256, logs an error and terminates the
\* process in the constructor, and on no other device; init never reports
\* the device's capability.
C17_CapabilityCheckedAtConstruction ==
  kind \in {"BoxFilterSAT", "BoxFilter"} =>
    /\ last.op = "construct" =>
         ((phase = "exited" /\ error \in CapabilityErrors)
            <=> \/ last.arg.maxLocalDim[1] < 16 \/ last.arg.maxLocalDim[2] < 16
                \/ last.arg.maxLocalSize < 256)
    /\ last.op = "construct" => phase \in {"exited", "constructed"}
    /\ error \in CapabilityErrors => last.op = "construct"

C17_Witness ==
  /\ kind = "BoxFilter" /\ last.op = "construct" /\ phase = "exited"
  /\ last.arg.maxLocalDim = <<16, 16>> /\ last.arg.maxLocalSize = 128

\* C18: Scan::init accepts a width exactly when it is a non-zero multiple of
\* 4 not above (8 x wgMultiple) squared; every other width terminates the
\* process in init.
C18_ScanAcceptsWidth ==
  (kind = "Scan" /\ last.op = "init") =>
    /\ phase = "ready"
         <=> /\ last.arg.width # 0 /\ last.arg.width % 4 = 0
             /\ last.arg.width <= (8 * WgMultiple) * (8 * WgMultiple)
    /\ phase # "ready" => (phase = "exited" /\ error # "none")

C18_Witness ==
  /\ kind = "Scan" /\ last.op = "init" /\ phase = "exited"
  /\ last.arg.width = (8 * WgMultiple) * (8 * WgMultiple) + 4

\* C36: for every width Scan::init accepts, the number of work-groups per
\* row, after rounding up to a multiple of 4, is at most 8 x wgMultiple, the
\* number of elements one work-group scans, so one work-group scans the row
\* of group sums; and the work-groups together cover at least width
\* elements.
C36_GroupSumsFitOneWorkGroup ==
  (kind = "Scan" /\ last.op = "init" /\ phase = "ready") =>
    LET wgXdim == Load(world, <<"wgXdim">>).int
    IN /\ wgXdim >= 1
       /\ wgXdim <= 8 * WgMultiple
       /\ wgXdim * (8 * WgMultiple) >= last.arg.width
       /\ wgXdim # 1 =>
            /\ wgXdim % 4 = 0
            /\ Arg(world, <<"kernelSumsScan">>, 4) = IntVal(wgXdim \div 4)

\* Scan::init accepted 200 columns: 13 work-groups, rounded up to 16.
C36_Witness ==
  /\ kind = "Scan" /\ last.op = "init" /\ phase = "ready"
  /\ last.arg.width = 200
  /\ Load(world, <<"wgXdim">>) = IntVal(16)

(***************************************************************************)
(* Data claims                                                             *)
(***************************************************************************)
\* The last run () was executed to its last command on the array the caller
\* wrote.
Finished == cmds # <<>> /\ Idle /\ last.op = "execute"

C20_TransposeTwiceIsIdentity ==
  (kind = "Transpose" /\ Finished)
    => content[DataOut(kind, world)] = hPtr.hPtrIn

\* Both transposes ran on an array that is not square and whose elements
\* all differ; the first moved its elements as cpuTranspose does.
C20_Witness ==
  /\ kind = "Transpose" /\ Finished
  /\ Len(cmds) = 2
  /\ Load(world, Append(transpose1, "width")) = IntVal(32)
  /\ Load(world, Append(transpose1, "height")) = IntVal(8)
  /\ hPtr.hPtrIn = Input("index", 256)
  /\ content[Load(world, Append(transpose1, "dBufferOut"))]
       = cpuTranspose(hPtr.hPtrIn, 32, 8)
  /\ content[Load(world, Append(transpose1, "dBufferOut"))] # hPtr.hPtrIn
  /\ content[DataOut(kind, world)] = hPtr.hPtrIn

\* The entry of the output of SAT for row r and column c of the input: the
\* output is laid out as the input when the stage was constructed with
\* transposed = false, and transposed otherwise.
SAT_entry(r, c) ==
  IF Load(world, <<"transposed">>) = Flag(TRUE)
  THEN At(content[DataOut(kind, world)], c * Load(world, <<"height">>).int + r)
  ELSE At(content[DataOut(kind, world)], r * Load(world, <<"width">>).int + c)

\* C21: once SAT has run on an array A, the entry of its output for row r
\* and column c is the sum of A over the rows 0 .. r and the columns 0 .. c.
C21_SATIsAreaSum ==
  (kind = "SAT" /\ Finished) =>
    \A r \in 0..(Load(world, <<"height">>).int - 1) :
      \A c \in 0..(Load(world, <<"width">>).int - 1) :
        SAT_entry(r, c)
          = WindowSum(hPtr.hPtrIn, Load(world, <<"width">>).int, 0, r, 0, c)

\* SAT ran, with rows scanned by several work-groups, on an array that is
\* neither square nor constant; its last entry is the sum of the array,
\* 55 times the 14 that seven consecutive elements add up to.
C21_Witness ==
  /\ kind = "SAT" /\ Finished
  /\ Load(world, <<"width">>) = IntVal(48)
  /\ Load(world, <<"height">>) = IntVal(8)
  /\ Load(world, <<"transposed">>) = Flag(TRUE)
  /\ Len(cmds) = 5
  /\ hPtr.hPtrIn = Input("squares", 384)
  /\ SAT_entry(7, 47) = Float(770, 1)
  /\ SAT_entry(7, 47) # SAT_entry(7, 46)

TileSides == {1, 2, 4, 8, 16}

\* The local range of transpose t is the square of the largest tile side
\* that divides both dimensions of its array, counted in blocks of 4 x 4.
LargestTile(t) ==
  LET xN == Load(world, Append(t, "width")).int \div 4
      yN == Load(world, Append(t, "height")).int \div 4
      l == Load(world, Append(t, "local")).range[1]
  IN /\ Load(world, Append(t, "local")) = NDRange(l, l)
     /\ l \in TileSides /\ l >= 1
     /\ xN % l = 0 /\ yN % l = 0
     /\ \A m \in TileSides : (xN % m = 0 /\ yN % m = 0) => m <= l

\* C35: for every width and height Transpose::init accepts, the side of
\* the square tile it chooses is the largest power of two up to 16 that
\* divides both width / 4 and height / 4, and is at least 1.
C35_TileSideIsLargestPowerOfTwo ==
  (kind = "Transpose" /\ phase = "ready") =>
    LargestTile(transpose1) /\ LargestTile(transpose2)

\* Transpose::init accepted an array of 64 x 32, whose tile has a side of
\* 8 although the width alone would allow 16.
C35_Witness ==
  /\ kind = "Transpose" /\ phase = "ready"
  /\ Load(world, Append(transpose1, "width")) = IntVal(64)
  /\ Load(world, Append(transpose1, "height")) = IntVal(32)
  /\ Load(world, Append(transpose1, "local")) = NDRange(8, 8)

\* Order and distance of floats that are numbers.
LessEq(x, y) == x.n * y.d <= y.n * x.d
Distance(x, y) == LET z == Sub(x, y) IN Float(Abs(z.n), z.d)
Largest(S) == CHOOSE x \in S : \A y \in S : LessEq(y, x)
Smallest(S) == CHOOSE x \in S : \A y \in S : LessEq(x, y)
Levels(arr) == {arr[i] : i \in 1..Len(arr)}
Spread(arr) == Sub(Largest(Levels(arr)), Smallest(Levels(arr)))

\* The parameters the guided filter was initialised with and its output.
Width == Load(world, <<"width">>).int
Height == Load(world, <<"height">>).int
Radius == Load(world, <<"radius">>).int
Eps == Load(world, <<"eps">>)
Output == content[DataOut(kind, world)]

\* The variances of the windows of the image the self-guided filter was
\* given that are not flat.
WindowVariances ==
  Levels(cpuVariance(hPtr.hPtrIn, Width, Height, Radius)) \ {Zero}

\* C23: once the self-guided filter has run with a finite eps, the output
\* q differs from the input p, at every pixel, by at most eps times the
\* spread of the image over its least non-zero window variance, so that q
\* tends to p as eps tends to 0; an image all of whose windows are flat is
\* reproduced as it is.
C23_SmallEpsReproducesInput ==
  (kind = "GuidedFilter_I_EQ_P" /\ Finished /\ Eps.d # 0) =>
    LET variances == WindowVariances
        least == IF variances = {} THEN Zero ELSE Smallest(variances)
        most == Mul(Eps, Spread(hPtr.hPtrIn))
    IN \A i \in 1..Len(Output) :
         /\ Output[i].d # 0
         /\ IF variances = {} THEN Output[i] = hPtr.hPtrIn[i]
            ELSE LessEq(Mul(Distance(Output[i], hPtr.hPtrIn[i]), least),
                        most)

\* The self-guided filter ran with the smallest eps on the image with a
\* step: the variance is non-zero around the pixels of the step, where the
\* output is within a tenth of the input and the mean of the window is
\* not.
C23_Witness ==
  /\ kind = "GuidedFilter_I_EQ_P" /\ Finished
  /\ Eps = Float(1, 10) /\ Radius = 2
  /\ hPtr.hPtrIn = Input("halves", 256)
  /\ cpuVariance(hPtr.hPtrIn, Width, Height, Radius)[8] # Zero
  /\ Output[8] # hPtr.hPtrIn[8]
  /\ LessEq(Distance(Output[8], hPtr.hPtrIn[8]), Float(1, 10))
  /\ ~LessEq(Distance(cpuBoxFilter(hPtr.hPtrIn, Width, Height, Radius)[8],
                      hPtr.hPtrIn[8]), Float(1, 10))

\* The self-guided filter's output is within Largest(variance) * spread
\* / eps of arr, and is arr when eps is infinite.
TendsTo(arr) ==
  LET most == Mul(Largest(Levels(cpuVariance(hPtr.hPtrIn, Width, Height,
                                             Radius))),
                  Spread(hPtr.hPtrIn))
  IN \A i \in 1..Len(Output) :
       IF Eps.d = 0 THEN Output[i] = arr[i]
       ELSE /\ Output[i].d # 0
            /\ LessEq(Mul(Distance(Output[i], arr[i]), Eps), most)

\* C24 as it is stated: once the self-guided filter has run, the output
\* differs from the input box-filtered once with the configured radius by
\* at most a constant of the image over eps, and is that array when eps is
\* infinite.
C24_LargeEpsSmoothsOnce ==
  (kind = "GuidedFilter_I_EQ_P" /\ Finished) =>
    TendsTo(Filled(cpuBoxFilter(hPtr.hPtrIn, Width, Height, Radius)))

\* C24: once the self-guided filter has run, the output differs from the
\* input box-filtered twice with the configured radius (the mean over
\* every window of the means mean_p of its pixels) by at most the largest
\* window variance times the spread of the image over eps, so that q tends
\* to that array as eps tends to infinity, and is that array when eps is
\* infinite.
C24_LargeEpsSmoothsTwice ==
  (kind = "GuidedFilter_I_EQ_P" /\ Finished) =>
    TendsTo(Filled(cpuBoxFilter(Filled(cpuBoxFilter(hPtr.hPtrIn, Width,
                                                    Height, Radius)),
                                Width, Height, Radius)))

\* The self-guided filter ran with an infinite eps on the image with a
\* step: next to the step the output is not the input and not the input
\* box-filtered once.
C24_Witness ==
  /\ kind = "GuidedFilter_I_EQ_P" /\ Finished
  /\ Eps = Infinity /\ Radius = 1
  /\ hPtr.hPtrIn = Input("halves", 256)
  /\ Output[7] # hPtr.hPtrIn[7]
  /\ Output[7] # cpuBoxFilter(hPtr.hPtrIn, Width, Height, Radius)[7]
  /\ Output[7] = Float(2, 9)

\* C25 as it is stated: once the cross-guided filter has run on a guidance
\* image I and an input p, whatever they are, its output is the array
\* cpuGuidedFilter computes from I.
C25_CrossGuidedMatchesReference ==
  (kind = "GuidedFilter_I_NEQ_P" /\ Finished) =>
    Output = cpuGuidedFilter(hPtr.hPtrInI, Width, Height, Radius, Eps)

\* C25: once the cross-guided filter has run on a guidance image I and an
\* input p that hold the same samples, its output is the array
\* cpuGuidedFilter computes from I.
C25_CrossGuidedMatchesReferenceOnSameImage ==
  (kind = "GuidedFilter_I_NEQ_P" /\ Finished /\ hPtr.hPtrInP = hPtr.hPtrInI) =>
    Output = cpuGuidedFilter(hPtr.hPtrInI, Width, Height, Radius, Eps)

\* The cross-guided filter ran with a finite eps on the striped image as
\* guidance and as input: the output is not the input and not its mean.
C25_Witness ==
  /\ kind = "GuidedFilter_I_NEQ_P" /\ Finished
  /\ Eps = Float(1, 10) /\ Radius = 2
  /\ hPtr.hPtrInI = Input("stripes", 256)
  /\ hPtr.hPtrInP = hPtr.hPtrInI
  /\ Output[40] # hPtr.hPtrInP[40]
  /\ Output[40] # cpuBoxFilter(hPtr.hPtrInP, Width, Height, Radius)[40]
  /\ Output[40].d > 1

\* Memory C after the device executed the commands i .. of a run, in the
\* order of the enqueues.
RECURSIVE Launched(_, _, _, _)
Launched(C, W, commands, i) ==
  IF i > Len(commands) THEN C
  ELSE CHOOSE R \in
         {Launched(D, W, commands, i + 1) :
            D \in {Filled([b \in DOMAIN X |-> Filled(X[b])]) :
                     X \in {Launch(C, W, commands[i].kernel)}}} : TRUE

\* What the output buffer of the self-guided filter holds once it was
\* initialised with P, given image p and run to its last command.
SelfGuidedOn(W, p) ==
  LET k == "GuidedFilter_I_EQ_P"
  IN CHOOSE out \in
       {Launched(C, W, H.cmds, 1)[DataOut(k, W)] :
          C \in {Filled([b \in DeviceBuffers(W) |->
                           IF b = DataIn(k, W, "D_IN") THEN Filled(p)
                           ELSE Filled([i \in 1..SizeOf(W, b) |->
                                          Float(9, 1)])])},
          H \in {Execute([cmds |-> <<>>, ev |-> <<>>, err |-> "none",
                          run |-> 1], Data_run(k, W))}} : TRUE

SelfGuided(P, p) ==
  LET k == "GuidedFilter_I_EQ_P"
  IN CHOOSE out \in
       {SelfGuidedOn(W, p) :
          W \in {Run(Construct(k, TRUE),
                     Data_init(k, Construct(k, TRUE), P))}} : TRUE

\* C37: once the cross-guided filter has run on a guidance image and an
\* input that hold the same samples, its output is the output of the
\* self-guided filter initialised with the same radius, eps and box scaling
\* and an output scaling of 1, and run on that image.
C37_CrossGuidedOnSameImageIsSelfGuided ==
  (kind = "GuidedFilter_I_NEQ_P" /\ Finished /\ hPtr.hPtrInP = hPtr.hPtrInI) =>
    Output = SelfGuided([width |-> Width, height |-> Height,
                         staging |-> "IO", i1 |-> IntVal(Radius),
                         i2 |-> IntVal(0), f1 |-> Eps,
                         f2 |-> Load(world, <<"boxScaling">>), f3 |-> One],
                        hPtr.hPtrInP)

\* The cross-guided filter ran with an infinite eps on the striped image
\* as guidance and as input, and the output is not the input.
C37_Witness ==
  /\ kind = "GuidedFilter_I_NEQ_P" /\ Finished
  /\ Eps = Infinity
  /\ hPtr.hPtrInI = Input("stripes", 256)
  /\ hPtr.hPtrInP = hPtr.hPtrInI
  /\ Output[41] # hPtr.hPtrInP[41]
  /\ Output = SelfGuided([width |-> 16, height |-> 16, staging |-> "IO",
                          i1 |-> IntVal(2), i2 |-> IntVal(0),
                          f1 |-> Infinity, f2 |-> One, f3 |-> One],
                         Input("stripes", 256))

(***************************************************************************)
(* Host claims                                                             *)
(***************************************************************************)
\* The per-channel filter command i belongs to, "none" for the splitter and
\* the combiner.
Channel(i) ==
  IF cmds[i].kernel[1] \in {"gfR", "gfG", "gfB"} THEN cmds[i].kernel[1]
  ELSE "none"

\* C11: in the RGB pipelines no two kernels of different per-channel filters
\* are enqueued on the same command queue, so none is ordered behind a kernel
\* of another channel by an in-order queue.
C11_ChannelsOnDifferentQueues ==
  kind \in RGBPipelines =>
    \A i, j \in 1..Len(cmds) :
      (/\ Channel(i) # "none" /\ Channel(j) # "none"
       /\ Channel(i) # Channel(j))
        => cmds[i].queue # cmds[j].queue

\* C12: every wait-list entry of a command names a command enqueued by the
\* same run () invocation (the caller supplies no wait list here).
C12_TokensStayWithinRun ==
  \A i \in 1..Len(cmds) :
    \A w \in cmds[i].wait : cmds[w].run = cmds[i].run

C12_Witness ==
  /\ Len(tokens) = 2
  /\ \E i \in 1..Len(cmds) : cmds[i].run = 2 /\ cmds[i].wait # {}

(***************************************************************************)
(* Frame claims                                                            *)
(***************************************************************************)
\* The indices at which the init of kernel K's owner binds the buffers K
\* writes: the Scan kernels (output, group sums), the kernels ab, var and q
\* of the guided filters, and the single kernel of Transpose, Pown, Mult,
\* SeparateRGB, CombineRGB and BoxFilterSAT.
OutputArgs(W, K) ==
  LET name == K[Len(K)]
      owner == IF Len(K) > 1 THEN K[Len(K) - 1] ELSE "none"
      p == SubSeq(K, 1, Len(K) - 1)
  IN CASE name = "kernelScan" -> {1, 3}
       [] name \in {"kernelSumsScan", "kernelAddSums"} -> {1}
       [] name = "var" -> {4, 5}
       [] name = "ab" -> IF Append(p, "var") \in DOMAIN W.k THEN {4, 5}
                         ELSE {2, 3}
       [] name = "q" -> {3}
       [] owner \in {"mult_II", "mult_Ip"} -> {2}
       [] owner = "sRGB" -> {1, 2, 3}
       [] owner = "cRGB" -> {3}
       [] OTHER -> {1}

\* The buffers kernel K writes, the buffers it is bound to, and those it
\* reads.
Writes(W, K) ==
  {Arg(W, K, i) : i \in {j \in OutputArgs(W, K) : IsBuffer(Arg(W, K, j))}}

Touches(W, K) ==
  {Arg(W, K, i) : i \in {j \in 0..MaxArgIndex : IsBuffer(Arg(W, K, j))}}

Reads(W, K) ==
  {Arg(W, K, i) :
     i \in {j \in 0..MaxArgIndex \ OutputArgs(W, K) : IsBuffer(Arg(W, K, j))}}

\* Command i is a transfer to or from a device buffer; the buffer it
\* writes or reads.
IsTransfer(i) ==
  cmds[i].kernel[1] \in {"enqueueWriteBuffer", "enqueueReadBuffer"}
Target(i) == Load(world, <<cmds[i].kernel[2]>>)

\* C26: on a guided filter, a kernel that reads an input buffer starts only
\* after the non-blocking write of that buffer made before the run has
\* completed, on whichever queue the kernel was enqueued.
C26_KernelsWaitForWrite ==
  kind \in GuidedFilters =>
    \A i \in started : \A w \in 1..Len(cmds) :
      (/\ ~IsTransfer(i) /\ IsTransfer(w)
       /\ cmds[w].run = cmds[i].run
       /\ Target(w) \in Reads(world, cmds[i].kernel))
        => w \in done

\* The commands of run r that separate the colour planes.
Separation(r) ==
  {s \in 1..Len(cmds) : cmds[s].run = r /\ cmds[s].kernel = <<"sRGB", "kernel">>}

\* C27: in every run of an RGB pipeline a kernel of a channel filter that
\* reads a separated colour plane starts only after the separation kernel
\* of that run has completed.
C27_ChannelsWaitForSeparation ==
  kind \in RGBPipelines =>
    \A i \in started :
      (/\ Channel(i) # "none"
       /\ Reads(world, cmds[i].kernel)
            \cap Writes(world, <<"sRGB", "kernel">>) # {})
        => Separation(cmds[i].run) \subseteq done

\* Kernels of the green and blue filters that read their plane with an
\* empty wait list, on the second queue, have started.
C27_Witness ==
  /\ kind \in RGBPipelines
  /\ Writes(world, <<"sRGB", "kernel">>) # {}
  /\ \E i, j \in started :
       /\ cmds[i].kernel = <<"gfG", "squared", "kernel">>
       /\ cmds[j].kernel = <<"gfB", "squared", "kernel">>
       /\ cmds[i].wait = {} /\ cmds[j].wait = {}
       /\ cmds[i].queue = 1
       /\ Reads(world, cmds[i].kernel) \subseteq Writes(world, <<"sRGB", "kernel">>)
       /\ Separation(cmds[i].run) # {}

\* The buffers holding the filtered channels of an RGB pipeline.
Filtered(k) ==
  IF k = "GuidedFilterRGB_SEPARATED"
  THEN {Got(world, "D_OUT_R"), Got(world, "D_OUT_G"), Got(world, "D_OUT_B")}
  ELSE {Got(world, "D_OUT")}

\* C28: once the event a run of an RGB pipeline returned is complete, every
\* kernel of that run that writes a filtered channel (D_OUT_R, D_OUT_G,
\* D_OUT_B, or the combined D_OUT) is complete.
C28_TokenCoversChannels ==
  kind \in RGBPipelines =>
    \A r \in 1..Len(tokens) :
      (tokens[r].id # 0 /\ tokens[r].id \in done) =>
        \A i \in 1..Len(cmds) :
          (/\ cmds[i].run = r /\ ~IsTransfer(i)
           /\ Writes(world, cmds[i].kernel) \cap Filtered(kind) # {})
            => i \in done

\* The event of a run of the pipeline with three outputs is complete, and
\* three kernels of that run write the three outputs.
C28_Witness ==
  /\ kind = "GuidedFilterRGB_SEPARATED"
  /\ Cardinality(Filtered(kind)) = 3
  /\ \E r \in 1..Len(tokens) :
       /\ tokens[r].id \in done
       /\ cmds[tokens[r].id].kernel = <<"gfB", "q">>
       /\ Cardinality({i \in done :
                         /\ cmds[i].run = r /\ ~IsTransfer(i)
                         /\ Writes(world, cmds[i].kernel)
                              \cap Filtered(kind) # {}}) = 3

\* C29: once a kernel of a later run of a guided filter has started, every
\* kernel of an earlier run that reads or writes a buffer the later kernel
\* writes has completed.
C29_RunsDoNotOverlapOnBuffers ==
  kind \in GuidedFilters =>
    \A i \in started : \A j \in 1..Len(cmds) :
      (/\ ~IsTransfer(i) /\ ~IsTransfer(j)
       /\ cmds[j].run < cmds[i].run
       /\ Writes(world, cmds[i].kernel)
            \cap Touches(world, cmds[j].kernel) # {})
        => j \in done

\* A kernel of the second run on the second queue has started; it writes a
\* buffer that a kernel of the first run on the first queue reads.
C29_Witness ==
  /\ kind \in GuidedFilters
  /\ \E i \in started : \E j \in done :
       /\ cmds[i].run = 2 /\ cmds[j].run = 1
       /\ cmds[i].queue = 1 /\ cmds[j].queue = 0
       /\ ~IsTransfer(j)
       /\ Writes(world, cmds[i].kernel)
            \cap Reads(world, cmds[j].kernel) # {}

\* Command i is a blocking read of an output of its run; the buffer it
\* copies.
IsRead(i) == cmds[i].kernel[1] = "enqueueReadBuffer"
Source(i) == Got(world, cmds[i].kernel[2])

\* The kernels of run r that contribute to the buffers B: those that write
\* one of them, and those that contribute to a buffer such a kernel reads.
RECURSIVE Feeding(_, _, _, _)
Feeding(r, seen, latest, K) ==
  LET new == {j \in 1..Len(cmds) \ K :
                /\ cmds[j].run = r /\ ~IsTransfer(j)
                /\ Writes(world, cmds[j].kernel) \cap latest # {}}
  IN IF new = {} THEN K
     ELSE CHOOSE F \in
            {Feeding(r, seen \cup next, next, K \cup new) :
               next \in {UNION {Reads(world, cmds[j].kernel) : j \in new}
                           \ seen}} : TRUE

Contributing(r, B) == Feeding(r, B, B, {})

\* C39: a blocking read issued after run (), neither call given a wait
\* list, returns (its copy is complete) only after every kernel of that
\* run that contributes to the buffer it reads has completed, and no
\* command of a later run was enqueued before it.
C39_BlockingReadFollowsRun ==
  \A i \in done :
    IsRead(i) =>
      /\ Contributing(cmds[i].run, {Source(i)}) \subseteq done
      /\ \A j \in 1..(i - 1) : cmds[j].run <= cmds[i].run

\* The blocking read of the red plane has returned; kernels on both queues
\* contributed to the plane, and the kernels of the green and blue filters
\* did not.
C39_Witness ==
  /\ kind = "GuidedFilterRGB_SEPARATED"
  /\ \E i \in done :
       /\ IsRead(i)
       /\ Source(i) = Got(world, "D_OUT_R")
       /\ \E j, k \in Contributing(cmds[i].run, {Source(i)}) :
            /\ cmds[j].queue = 1 /\ cmds[k].queue = 0
            /\ cmds[j].kernel[1] = "gfR" /\ cmds[k].kernel[1] = "sRGB"
       /\ \A j \in Contributing(cmds[i].run, {Source(i)}) :
            cmds[j].kernel[1] \in {"sRGB", "gfR"}

(***************************************************************************)
(* Staging claims                                                          *)
(***************************************************************************)
WriteStep == last'.op = "write"
ReadStep == last'.op = "read"

\* C1: for every stage, a write under policy NONE or O and a read under
\* policy NONE or I enqueue no transfer, change no buffer and raise no
\* error (and such a read returns nullptr).
C1_DisabledTransferIsNoOp ==
  [][(\/ WriteStep /\ staging \in {"NONE", "O"}
      \/ ReadStep /\ staging \in {"NONE", "I"})
     => /\ UNCHANGED <<content, queue, error, hPtr, staging>>
        /\ ReadStep => last'.ret = "nullptr"]_vars

\* A write of an input device buffer was called under policy O while a
\* read is still pending on the queue.
C1_Witness ==
  /\ last.op = "write" /\ last.mem \in WriteMems(kind)
  /\ staging = "O" /\ queue # <<>>

\* C2: for every stage, under policy I or IO a write on an input device
\* buffer enqueues a copy staging -> device, and under policy O or IO a read
\* enqueues a copy device -> staging and returns the staging pointer.
C2_EnabledTransferIsEnqueued ==
  [][/\ (WriteStep /\ staging \in {"I", "IO"} /\ last'.mem \in WriteMems(kind))
        => \/ queue' = Append(queue, [op |-> "write", dev |-> last'.mem,
                                      host |-> HostOf(last'.mem)])
           \/ /\ queue' = <<>>
              /\ content'[last'.mem] = content'[HostOf(last'.mem)]
     /\ (ReadStep /\ staging \in {"O", "IO"} /\ last'.mem \in ReadMems(kind))
        => /\ \/ queue' = Append(queue, [op |-> "read", dev |-> DevOf(last'.mem),
                                         host |-> last'.mem])
              \/ /\ queue' = <<>>
                 /\ content'[last'.mem] = content'[DevOf(last'.mem)]
           /\ last'.ret = last'.mem]_vars

====
